---- MODULE Spec2Model ----
(***************************************************************************)
(* A model of the demoinfocs2_lite entity replication core: the chunked    *)
(* entity list, the field-path engine and the packet-entities driver with  *)
(* the instance-baseline string table.                                     *)
(*                                                                         *)
(* Option<T> is modelled as a sequence of length 0 (None) or 1 (Some(x)).  *)
(* A fixed array of Option slots (the 64 chunk owners, the 512 slots of a   *)
(* chunk) is modelled as a function whose domain is the set of occupied    *)
(* slots: a slot outside the domain is None.                               *)
(***************************************************************************)
EXTENDS Integers, Sequences, FiniteSets, TLC

VARIABLES
    entity_chunk,   \* EntityList.entity_chunk: chunk index -> Option<EntityChunk>
    shadow,         \* history: index -> the entity last inserted and not deleted since
    list_ret,       \* history: the last EntityList call and what it returned
    fp_path,        \* read_field_paths: the local `path` (path, last, is_done)
    fp_pc,          \* read_field_paths: "run", or how the call ended: "ok", "err", "panic"
    paths,          \* read_field_paths: the output vector of FieldPathFixed
    fp_trace,       \* history: the path after each opcode, but the terminator, that ran to its end
    class_info,         \* CsDemoParser.class_info: class id -> network name
    entity_serializers, \* CsDemoParser.entity_serializers: name -> (serializer, serialize_baseline)
    instance_baseline,  \* CsDemoParser.instance_baseline: Option<StringTable>
    string_tables,      \* CsDemoParser.string_tables: the names of the tables created, in order
    pe,                 \* handle_packet_entities: its locals (idx, entry, entries, has_pvs_vis_bits)
    result,             \* what the last handler call returned: "" for Ok(()), else the error
    pe_log,             \* history: what the last entry of handle_packet_entities did
    baseline_hist,      \* history: class id -> payload of its last baseline step, still clean?
    tick,               \* CsDemoParserState.tick
    map_name,           \* CsDemoParserState.map_name
    network_protocol,   \* CsDemoParserState.network_protocol
    late_creators,      \* the names register_entity_serializer added to entity_serializer_creators
    game_event_serializers, \* CsDemoParser.game_event_serializers: the names registered
    frame_log,          \* history: the last read_frame or register call and what it did
    frame_hist,         \* history: was a frame parsed, the tick of the frame read last
    dec_opt,            \* the target of an Optional decoder: Option<T>, T a struct
    dec_vec,            \* the target of a Vector decoder: Vec<u64>
    dec_arr,            \* the target of an Array decoder: Vec<u64>
    dec_poly,           \* the target of a Polymorphic decoder: PolymorphicEntity
    dec_skip,           \* the target of a Polymorphic decoder when it is a bare usize
    dec_log,            \* history: the last decode call and what it did
    dec_hist,           \* history: what the last empty-path decodes read
    varint_log,         \* history: the last two signed varint reads and what they returned
    quantized,          \* what F32SerializerQuantized::new returned last, and its arguments
    quant_log,          \* history: the last decode through that decoder
    trees,              \* FIELD_PATH_HUFFMAN's closure: the BinaryHeap `trees`
    huff_n,             \* FIELD_PATH_HUFFMAN's closure: the local `n`
    huff_log,           \* history: the two nodes the last merge popped, and the heap before
    huff_reader,        \* history: the bits read_field_paths was fed, the opcodes it ran
    constructed,        \* what CsDemoParser::new returned, and the input it was given
    send_tables_log,    \* history: the call of handle_demo_send_tables that last built serializers
    table_log,          \* history: the last call of BaselineStringTableParser::update on its own
    bits_log,           \* history: the last read of read_u8 or an unsigned varint, by both branches
    own_table,          \* a StringTable outside a parser: None before StringTable::new, then its parser, its maps and (history) the calls made on it
    event_manager,      \* EventManager.event_listeners: event type -> its EventDispatcher
    dispatch_log,       \* history: the listener calls of the last read_frame
    index_log,          \* history: the running index over the entries of a packet-entities message
    skip_log            \* history: one field decoded from the same bits into a target and with none

listVars == <<entity_chunk, shadow, list_ret>>

fpVars == <<fp_path, fp_pc, paths, fp_trace>>

parserVars == <<class_info, entity_serializers, instance_baseline, string_tables,
                pe, result, pe_log, baseline_hist>>

frameVars == <<tick, map_name, network_protocol, late_creators,
               game_event_serializers, frame_log, frame_hist>>

decVars == <<dec_opt, dec_vec, dec_arr, dec_poly, dec_skip, dec_log, dec_hist>>

\* the histories of single calls
callVars == <<table_log, bits_log, own_table, event_manager, dispatch_log, index_log, skip_log>>

unitVars == <<varint_log, quantized, quant_log, trees, huff_n, huff_log, huff_reader,
             constructed, send_tables_log, callVars>>

vars == <<entity_chunk, shadow, list_ret, fp_path, fp_pc, paths, fp_trace,
          class_info, entity_serializers, instance_baseline, string_tables,
          pe, result, pe_log, baseline_hist,
          tick, map_name, network_protocol, late_creators,
          game_event_serializers, frame_log, frame_hist,
          dec_opt, dec_vec, dec_arr, dec_poly, dec_skip, dec_log, dec_hist,
          varint_log, quantized, quant_log, trees, huff_n, huff_log, huff_reader,
          constructed, send_tables_log, table_log, bits_log, own_table, event_manager, dispatch_log, index_log, skip_log>>

----------------------------------------------------------------------------
(* Option, sparse arrays, machine integers *)

None == <<>>

Some(x) == <<x>>

EmptyFn == [x \in {} |-> 0]

Put(f, k, v) == [x \in (DOMAIN f) \cup {k} |-> IF x = k THEN v ELSE f[x]]

Drop(f, k) == [x \in (DOMAIN f) \ {k} |-> f[x]]

Pow2(n) == 2 ^ n

\* TLC integers are 32-bit.  A u32 is carried as the i32 with the same 32 bits
\* (a negative number v stands for v + 2^32), which is what `as i32` / `as u32`
\* do.  A usize of 2^31 or more is carried as UsizeHigh: the only thing the
\* program does with such a value is to find it out of range.
UsizeHigh == Pow2(30) + (Pow2(30) - 1)

\* `idx as usize` of an i32: a negative idx sign-extends to 2^64 + idx
AsUsize(x) == IF x < 0 THEN UsizeHigh ELSE x

RECURSIVE BitOr(_, _)
BitOr(a, b) ==
    IF a = 0 THEN b
    ELSE IF b = 0 THEN a
    ELSE (IF a % 2 = 1 \/ b % 2 = 1 THEN 1 ELSE 0) + 2 * BitOr(a \div 2, b \div 2)

RECURSIVE BitAnd(_, _)
BitAnd(a, b) ==
    IF a = 0 \/ b = 0 THEN 0
    ELSE (IF a % 2 = 1 /\ b % 2 = 1 THEN 1 ELSE 0) + 2 * BitAnd(a \div 2, b \div 2)

----------------------------------------------------------------------------
(* entity/list.rs *)

MAX_ENTITIES_IN_LIST == 512

MAX_ENTITY_LISTS == 64

\* MAX_ENTITIES_IN_LIST.trailing_zeros()
ENTITY_CHUNK_SHIFT == 9

ENTITY_OFFSET_MASK == MAX_ENTITIES_IN_LIST - 1

MAX_EDICT_BITS == 14

ENTITY_HANDLE_INDEX_MASK == Pow2(MAX_EDICT_BITS) - 1

EntityItem(index, serial, item, serializer) ==
    [index |-> index, serial |-> serial, item |-> item, serializer |-> serializer]

get_handle(e) == BitOr(e.serial * Pow2(MAX_EDICT_BITS), e.index)

\* EntityList::new: no chunk is allocated
NewEntityList == EmptyFn

\* the chunk an insert allocates
NewEntityChunk == [counter |-> 0, entities |-> EmptyFn]

chunk(list, ci) ==
    IF ci >= MAX_ENTITY_LISTS THEN None
    ELSE IF ci \in DOMAIN list THEN Some(list[ci]) ELSE None

get(list, idx) ==
    LET c == chunk(list, idx \div Pow2(ENTITY_CHUNK_SHIFT))
        entity_idx == BitAnd(idx, ENTITY_OFFSET_MASK)
    IN  IF c = None THEN None
        ELSE IF entity_idx \in DOMAIN c[1].entities
             THEN Some(c[1].entities[entity_idx])
             ELSE None

\* a delete that releases the chunk without looking at its counter
delete_release_always(list, idx) ==
    LET ci == idx \div Pow2(ENTITY_CHUNK_SHIFT)
        c == chunk(list, ci)
        entity_idx == BitAnd(idx, ENTITY_OFFSET_MASK)
    IN  IF c = None THEN [list |-> list, ret |-> None]
        ELSE IF entity_idx \notin DOMAIN c[1].entities
             THEN [list |-> list, ret |-> None]
             ELSE [list |-> Drop(list, ci),
                   ret |-> Some(c[1].entities[entity_idx])]

delete(list, idx) ==
    LET ci == idx \div Pow2(ENTITY_CHUNK_SHIFT)
        c == chunk(list, ci)
        entity_idx == BitAnd(idx, ENTITY_OFFSET_MASK)
    IN  IF c = None THEN [list |-> list, ret |-> None]
        ELSE IF entity_idx \notin DOMAIN c[1].entities
             THEN [list |-> list, ret |-> None]
             ELSE LET counter == c[1].counter - 1
                      taken == [counter |-> counter,
                                entities |-> Drop(c[1].entities, entity_idx)]
                  IN  [list |-> IF counter = 0 THEN Drop(list, ci)
                                ELSE Put(list, ci, taken),
                       ret |-> Some(c[1].entities[entity_idx])]

\* an insert that counts a replaced slot again
insert_count_always(list, idx, entity) ==
    LET chunk_idx == idx \div Pow2(ENTITY_CHUNK_SHIFT)
    IN  IF chunk_idx >= MAX_ENTITY_LISTS THEN [list |-> list, ret |-> None]
        ELSE LET c == IF chunk_idx \notin DOMAIN list THEN NewEntityChunk
                      ELSE list[chunk_idx]
                 entity_idx == BitAnd(idx, ENTITY_OFFSET_MASK)
                 old_entity == IF entity_idx \in DOMAIN c.entities
                               THEN Some(c.entities[entity_idx]) ELSE None
             IN  [list |-> Put(list, chunk_idx,
                        [counter |-> c.counter + 1,
                         entities |-> Put(c.entities, entity_idx, entity)]),
                  ret |-> old_entity]

insert(list, idx, entity) ==
    LET chunk_idx == idx \div Pow2(ENTITY_CHUNK_SHIFT)
    IN  IF chunk_idx >= MAX_ENTITY_LISTS THEN [list |-> list, ret |-> None]
        ELSE LET c == IF chunk_idx \notin DOMAIN list THEN NewEntityChunk
                      ELSE list[chunk_idx]
                 entity_idx == BitAnd(idx, ENTITY_OFFSET_MASK)
                 old_entity == IF entity_idx \in DOMAIN c.entities
                               THEN Some(c.entities[entity_idx]) ELSE None
                 counter == IF old_entity = None THEN c.counter + 1 ELSE c.counter
             IN  [list |-> Put(list, chunk_idx,
                        [counter |-> counter,
                         entities |-> Put(c.entities, entity_idx, entity)]),
                  ret |-> old_entity]

\* the downcast to T is left out: the payload is returned whatever its type
get_entity_by_handle(list, handle) ==
    LET idx == BitAnd(handle, ENTITY_HANDLE_INDEX_MASK)
        entity == get(list, idx)
        serial == handle \div Pow2(MAX_EDICT_BITS)
    IN  IF entity = None THEN None
        ELSE IF entity[1].serial # serial THEN None
        ELSE Some(entity[1].item)

\* EntityList::iter, as the set of live entities
iter(list) ==
    UNION {{list[c].entities[o] : o \in DOMAIN list[c].entities} : c \in DOMAIN list}

----------------------------------------------------------------------------
(* entity/fieldpath.rs *)

\* FieldPath; slot i of the Rust array is path[i + 1] here
FieldPath(path, last, is_done) == [path |-> path, last |-> last, is_done |-> is_done]

DEFAULT_FIELD_PATH == FieldPath(<<-1, 0, 0, 0, 0, 0, 0>>, 0, FALSE)

\* the capacity of FieldPath.path
FieldPathSlots == Len(DEFAULT_FIELD_PATH.path)

\* the steps an opcode is made of.  `at` is a slot, or -1 for path.last()
AddAt(at, v) == [k |-> "add", at |-> at, v |-> v, pat |-> "none"]

PushLevel(v) == [k |-> "push", at |-> 0, v |-> v, pat |-> "none"]

\* `qty` is the count handed to FieldPath::pop, or -1 for path.last()
PopLevels(qty) == [k |-> "pop", at |-> 0, v |-> qty, pat |-> "none"]

\* for i in 0..=path.last() { if read_bit { path[i] += v } }: pat tells which
\* levels have their bit set
AddLevels(pat, v) == [k |-> "addvec", at |-> 0, v |-> v, pat |-> pat]

SetDone == [k |-> "done", at |-> 0, v |-> 0, pat |-> "none"]

Repeat(n, x) == [i \in 1 .. n |-> x]

\* FieldPath::pop: the count is cut to a u8 before the saturating subtraction
pop(p, qty) ==
    LET qty8 == qty % 256
        new_last == IF p.last >= qty8 THEN p.last - qty8 ELSE 0
    IN  [p EXCEPT !.path = [i \in 1 .. FieldPathSlots |->
                                IF i - 1 > new_last /\ i - 1 <= p.last THEN 0 ELSE p.path[i]],
                  !.last = new_last]

LevelSet(pat, last) ==
    CASE pat = "none" -> {}
      [] pat = "first" -> {0}
      [] pat = "all" -> 0 .. last
      [] pat = "penultimate" -> IF last > 0 THEN {last - 1} ELSE {}

\* one step of an opcode on st = [p, status].  An index past the seven slots
\* panics (a bounds-checked array index) after `last` was incremented.
ExecStep(st, ins) ==
    IF st.status # "ok" THEN st
    ELSE LET p == st.p IN
      CASE ins.k = "add" ->
             LET slot == IF ins.at = -1 THEN p.last ELSE ins.at
             IN  [st EXCEPT !.p.path[slot + 1] = @ + ins.v]
        [] ins.k = "push" ->
             IF p.last + 1 >= FieldPathSlots
             THEN [st EXCEPT !.p.last = p.last + 1, !.status = "panic"]
             ELSE [st EXCEPT !.p.last = p.last + 1, !.p.path[p.last + 2] = ins.v]
        [] ins.k = "pop" ->
             [st EXCEPT !.p = pop(p, IF ins.v = -1 THEN p.last ELSE ins.v)]
        [] ins.k = "addvec" ->
             [st EXCEPT !.p.path = [i \in 1 .. FieldPathSlots |->
                    IF (i - 1) \in LevelSet(ins.pat, p.last) THEN p.path[i] + ins.v
                    ELSE p.path[i]]]
        [] ins.k = "done" -> [st EXCEPT !.p.is_done = TRUE]

RECURSIVE ExecSteps(_, _)
ExecSteps(st, code) ==
    IF code = <<>> THEN st ELSE ExecSteps(ExecStep(st, Head(code)), Tail(code))

\* FIELD_PATH_OPS[op].op as its steps, for the operands o = [a, b, c, n, pat]
\* read from the stream: a, b, c are the values read in order, n a count,
\* pat the presence bits of a per-level loop
OpCode(op, o) ==
    CASE op = 0 -> <<AddAt(-1, 1)>>
      [] op = 1 -> <<AddAt(-1, 2)>>
      [] op = 2 -> <<AddAt(-1, 3)>>
      [] op = 3 -> <<AddAt(-1, 4)>>
      [] op = 4 -> <<AddAt(-1, o.a + 5)>>
      [] op = 5 -> <<PushLevel(0)>>
      [] op = 6 -> <<PushLevel(o.a)>>
      [] op = 7 -> <<AddAt(-1, 1), PushLevel(0)>>
      [] op = 8 -> <<AddAt(-1, 1), PushLevel(o.a)>>
      [] op = 9 -> <<AddAt(-1, o.a), PushLevel(0)>>
      [] op \in {10, 11, 12} -> <<AddAt(-1, o.a + 2), PushLevel(o.b + 1)>>
      [] op \in {13, 14} -> <<PushLevel(o.a), PushLevel(o.b)>>
      [] op \in {15, 16} -> <<PushLevel(o.a), PushLevel(o.b), PushLevel(o.c)>>
      [] op \in {17, 18} -> <<AddAt(-1, 1), PushLevel(o.a), PushLevel(o.b)>>
      [] op \in {19, 20} ->
            <<AddAt(-1, 1), PushLevel(o.a), PushLevel(o.b), PushLevel(o.c)>>
      [] op \in {21, 22} -> <<AddAt(-1, o.n + 2), PushLevel(o.a), PushLevel(o.b)>>
      [] op \in {23, 24} ->
            <<AddAt(-1, o.n + 2), PushLevel(o.a), PushLevel(o.b), PushLevel(o.c)>>
      [] op = 25 -> <<AddAt(-1, o.a)>> \o Repeat(o.n, PushLevel(o.b))
      [] op = 26 -> <<AddLevels(o.pat, o.a + 1)>> \o Repeat(o.n, PushLevel(o.b))
      [] op = 27 -> <<PopLevels(1), AddAt(-1, 1)>>
      [] op = 28 -> <<PopLevels(1), AddAt(-1, o.a + 1)>>
      [] op = 29 -> <<PopLevels(-1), AddAt(0, 1)>>
      [] op \in {30, 31, 32} -> <<PopLevels(-1), AddAt(0, o.a + 1)>>
      [] op = 33 -> <<PopLevels(o.n), AddAt(-1, 1)>>
      [] op = 34 -> <<PopLevels(o.n), AddAt(-1, o.a)>>
      [] op = 35 -> <<PopLevels(o.n), AddLevels(o.pat, o.a)>>
      [] op = 36 -> <<AddLevels(o.pat, o.a)>>
      [] op = 37 -> <<AddLevels("penultimate", 1)>>
      [] op = 38 -> <<AddLevels(o.pat, o.a - 7)>>
      [] op = 39 -> <<SetDone>>

FieldPathEncodeFinish == 39

\* FieldPath::finish: the 32 bytes of the FieldPath copied as eight u32
\* words (little-endian): the seven indices, then last | is_done << 8 |
\* padding << 16
finish(p, out) ==
    Append(out, p.path \o <<p.last + 256 * (IF p.is_done THEN 1 ELSE 0)>>)

\* FieldPathFixed::to_slice
to_slice(fixed) == SubSeq(fixed, 1, fixed[8] + 1)

\* a loop body that snapshots the path after the terminator too
RunOp_snapshot_always(p, out, op, o) ==
    LET st == ExecSteps([p |-> p, status |-> "ok"], OpCode(op, o))
    IN  [p |-> st.p, status |-> st.status,
         paths |-> IF st.status = "ok" THEN finish(st.p, out) ELSE out]

\* the body of read_field_paths' loop once the walk reached the leaf of
\* `op`: run it, and snapshot the path unless it is the terminator
RunOp(p, out, op, o) ==
    LET st == ExecSteps([p |-> p, status |-> "ok"], OpCode(op, o))
    IN  [p |-> st.p, status |-> st.status,
         paths |-> IF st.status = "ok" /\ ~st.p.is_done THEN finish(st.p, out) ELSE out]

----------------------------------------------------------------------------
(* read_field_paths on an arbitrary bit stream: the stream decides which    *)
(* opcode the Huffman walk reaches and which operands the opcode reads      *)

\* the opcodes (other than the terminator) one call decodes at most
MaxOps == 2

\* values of read_ubit_int_fp
FpVals == {0, 3}

\* values of read_unsigned::<k, u32>
Bits(k) == {0, Pow2(k) - 1}

\* values of read_ubit_int as i32
UbitVals == {0, 1}

\* values of read_varint_i32
VarintVals == {-1, 2}

\* level counts read by PushN and PushNAndNonTopological
PushCounts == {0, 2, 7}

\* level counts read by the PopN opcodes
PopCounts == {1, 2, 256}

\* which levels of a per-level loop have their presence bit set
LevelPats == {"none", "first", "all"}

Operand(A, B, C, N, P) ==
    {[a |-> a, b |-> b, c |-> c, n |-> n, pat |-> p] :
        a \in A, b \in B, c \in C, n \in N, p \in P}

\* the operands the stream supplies to each opcode.  Where an opcode reads
\* several values of one kind, the first varies and the others are fixed.
Operands(op) ==
    CASE op \in {0, 1, 2, 3, 5, 7, 27, 29, 37, 39} -> Operand({0}, {0}, {0}, {0}, {"none"})
      [] op \in {4, 6, 8, 9, 28, 30} -> Operand(FpVals, {0}, {0}, {0}, {"none"})
      [] op = 10 -> Operand(FpVals, {3}, {0}, {0}, {"none"})
      [] op = 11 -> Operand(Bits(3), {7}, {0}, {0}, {"none"})
      [] op = 12 -> Operand(Bits(4), {15}, {0}, {0}, {"none"})
      [] op \in {13, 15, 17, 19} -> Operand(FpVals, {3}, {0}, {0}, {"none"})
      [] op \in {14, 16, 18, 20} -> Operand(Bits(5), {31}, {0}, {0}, {"none"})
      [] op \in {21, 23} -> Operand({3}, {0}, {3}, UbitVals, {"none"})
      [] op \in {22, 24} -> Operand({31}, {0}, {31}, UbitVals, {"none"})
      [] op = 25 -> Operand({1}, {3}, {0}, PushCounts, {"none"})
      [] op = 26 -> Operand({-1}, {3}, {0}, PushCounts, {"none", "all"})
      [] op = 31 -> Operand(Bits(3), {0}, {0}, {0}, {"none"})
      [] op = 32 -> Operand(Bits(6), {0}, {0}, {0}, {"none"})
      [] op = 33 -> Operand({0}, {0}, {0}, PopCounts, {"none"})
      [] op = 34 -> Operand({-1}, {0}, {0}, PopCounts, {"none"})
      [] op = 35 -> Operand({2}, {0}, {0}, PopCounts, {"all"})
      [] op = 36 -> Operand(VarintVals, {0}, {0}, {0}, LevelPats)
      [] op = 38 -> Operand(Bits(4), {0}, {0}, {0}, {"first", "all"})

FpInit ==
    /\ fp_path = DEFAULT_FIELD_PATH
    /\ fp_pc = "run"
    /\ paths = <<>>
    /\ fp_trace = <<>>

\* one turn of the loop that ends in a leaf: the bits read select `op`, the
\* opcode reads its operands and runs
FpDecodeOp(op, o) ==
    /\ fp_pc = "run"
    /\ op # FieldPathEncodeFinish => Len(fp_trace) < MaxOps
    /\ \E r \in {RunOp(fp_path, paths, op, o)} :
           /\ fp_path' = r.p
           /\ paths' = r.paths
           /\ fp_pc' = IF r.status = "panic" THEN "panic"
                       ELSE IF r.p.is_done THEN "ok" ELSE "run"
           /\ fp_trace' = IF r.status = "ok" /\ op # FieldPathEncodeFinish
                          THEN Append(fp_trace, [path |-> r.p.path, last |-> r.p.last])
                          ELSE fp_trace
    /\ UNCHANGED <<listVars, parserVars, frameVars, decVars, unitVars>>

\* the stream ends inside the walk or inside an opcode's operands: the read
\* fails and the call returns the error; the vector keeps what it holds
FpReadError ==
    /\ fp_pc = "run"
    /\ fp_pc' = "err"
    /\ UNCHANGED <<fp_path, paths, fp_trace>>
    /\ UNCHANGED <<listVars, parserVars, frameVars, decVars, unitVars>>

----------------------------------------------------------------------------
(* entity/serializer.rs: the class serializers and the payloads they build *)

\* io::Result: Ok(val) or Err(err)
Ok(x) == [ok |-> TRUE, err |-> "", val |-> <<x>>]

Err(msg) == [ok |-> FALSE, err |-> msg, val |-> <<>>]

\* the members of the application's entity structs: a field of a class is
\* bound to a getter when the struct has a member of its name
EntityStruct == ("TA" :> {"m_iHealth"}) @@ ("TB" :> {"m_iHealth"})

\* the payload of a class the application did not register
UnknownEntity == [type |-> "UnknownEntity", fields |-> <<>>]

\* CustomEntitySerializer<T> (type T) or UnknownEntitySerializer, over the
\* flattened fields (their names) the send tables list for the class
ClassSerializer(type, fields) == [type |-> type, fields |-> fields]

new_entity(ser) ==
    IF ser.type = UnknownEntity.type THEN UnknownEntity
    ELSE [type |-> ser.type, fields |-> [m \in EntityStruct[ser.type] |-> 0]]

\* a faulty clone_entity: a fresh payload instead of a copy
clone_entity_fresh(ser, entity) ==
    IF entity.type = ser.type THEN Ok(new_entity(ser))
    ELSE Err("Entity type mismatch")

clone_entity(ser, entity) ==
    IF entity.type = ser.type THEN Ok(entity)
    ELSE Err("Entity type mismatch")

\* decode one field path (its first index `f`) with the value `v` the stream
\* holds for it
decode(ser, entity, f, v) ==
    IF ser.type = UnknownEntity.type
    THEN IF AsUsize(f) < Len(ser.fields) THEN Ok(entity)
         ELSE Err("Unknown entity index")
    ELSE IF entity.type # ser.type THEN Err("Entity type mismatch")
    ELSE IF AsUsize(f) >= Len(ser.fields) THEN Err("Invalid serializer index")
    ELSE IF ser.fields[f + 1] \in DOMAIN entity.fields
         THEN Ok([entity EXCEPT !.fields[ser.fields[f + 1]] = v])
         ELSE Ok(entity)

\* `for field_path in &self.field_path_cache { decode(..)? }`: the payload is
\* changed in place, so the fields decoded before an error stay changed
RECURSIVE decode_all(_, _, _)
decode_all(ser, entity, upd) ==
    IF upd = <<>> THEN Ok(entity)
    ELSE LET r == decode(ser, entity, Head(upd).f, Head(upd).v)
         IN  IF r.ok THEN decode_all(ser, r.val[1], Tail(upd))
             ELSE [ok |-> FALSE, err |-> r.err, val |-> <<entity>>]

----------------------------------------------------------------------------
(* entity/serializer.rs, entity/decoder.rs: the field decoders *)

\* The reader is the sequence of the values its next reads return (a bit, a
\* varint, a ubit int, a primitive value); a read from an empty reader is an
\* error.  A decode call yields its result, the target after it (None when it
\* decoded with no target), the reader after it and the calls it made to the
\* decoder below it.
DecOut(ret, err, entity, reader, inner) ==
    [ret |-> ret, err |-> err, entity |-> entity, reader |-> reader, inner |-> inner]

\* a call of the decoder below: with a target or without, and the index of
\* the element or candidate it was dispatched to (-1 if there is none)
InnerCall(has_entity, index) == [entity |-> has_entity, index |-> index]

\* primitive_serializer!: the path must be empty; the value is read into the
\* target, or skipped
PrimitiveDecode(entity, path, reader) ==
    IF path # <<>>
    THEN DecOut("Err", "Path should be empty when primitive serializer is reached",
                entity, reader, <<>>)
    ELSE IF reader = <<>>
    THEN DecOut("Err", "unexpected end of file", entity, reader, <<>>)
    ELSE DecOut("Ok", "", IF entity = None THEN None ELSE Some(Head(reader)),
                Tail(reader), <<>>)

\* the struct below an Optional or a Polymorphic decoder: one u64 field with
\* a getter and no callback
StructFields == <<"x">>

new_struct == [x |-> 0]

\* CustomEntitySerializer<T>::decode_typed for that struct
StructDecode(entity, path, reader) ==
    IF path = <<>>
    THEN DecOut("Err", "Invalid field path", entity, reader, <<>>)
    ELSE IF path[1] >= Len(StructFields)
    THEN DecOut("Err", "Invalid serializer index", entity, reader, <<>>)
    ELSE LET r == PrimitiveDecode(IF entity = None THEN None ELSE Some(entity[1].x),
                                  Tail(path), reader)
         IN  DecOut(r.ret, r.err,
                    IF entity = None \/ r.ret # "Ok" THEN entity
                    ELSE Some([x |-> r.entity[1]]),
                    r.reader, <<>>)

\* a faulty presence step that materialises the payload whatever the bit
replace_always(has_item, new) == Some(new)

\* e.replace(T::new()) or e.take()
replace_or_take(has_item, new) == IF has_item THEN Some(new) ELSE None

\* OptionalSerializer::decode_typed
OptionalDecode(entity, path, reader) ==
    IF path = <<>>
    THEN IF reader = <<>>
         THEN DecOut("Err", "unexpected end of file", entity, reader, <<>>)
         ELSE DecOut("Ok", "",
                     IF entity = None THEN None
                     ELSE Some(replace_or_take(Head(reader) = 1, new_struct)),
                     Tail(reader), <<>>)
    ELSE IF entity # None
    THEN IF entity[1] = None
         THEN DecOut("Err", "PointerSerializer expects a non-empty entity", entity,
                     reader, <<>>)
         ELSE LET r == StructDecode(Some(entity[1][1]), path, reader)
              IN  DecOut(r.ret, r.err, Some(r.entity), r.reader, <<InnerCall(TRUE, -1)>>)
    ELSE LET r == StructDecode(None, path, reader)
         IN  DecOut(r.ret, r.err, None, r.reader, <<InnerCall(FALSE, -1)>>)

\* a faulty resize that forgets the elements it should keep
resize_fresh(e, size, new) == [i \in 1 .. size |-> new]

\* Vec::resize(size, T::new())
resize(e, size, new) == [i \in 1 .. size |-> IF i <= Len(e) THEN e[i] ELSE new]

\* VectorSerializer::decode_typed over Vec<u64>
VectorDecode(entity, path, reader) ==
    IF path = <<>>
    THEN IF reader = <<>>
         THEN DecOut("Err", "unexpected end of file", entity, reader, <<>>)
         ELSE DecOut("Ok", "",
                     IF entity = None THEN None
                     ELSE Some(resize(entity[1], Head(reader), 0)),
                     Tail(reader), <<>>)
    ELSE IF entity # None
    THEN IF path[1] < Len(entity[1])
         THEN LET r == PrimitiveDecode(Some(entity[1][path[1] + 1]), Tail(path), reader)
              IN  DecOut(r.ret, r.err,
                         IF r.ret # "Ok" THEN entity
                         ELSE Some([entity[1] EXCEPT ![path[1] + 1] = r.entity[1]]),
                         r.reader, <<InnerCall(TRUE, path[1])>>)
         ELSE DecOut("Err", "Invalid vector index", entity, reader, <<>>)
    ELSE LET r == PrimitiveDecode(None, Tail(path), reader)
         IN  DecOut(r.ret, r.err, None, r.reader, <<InnerCall(FALSE, path[1])>>)

\* ArraySerializer.size
ArraySize == 2

\* ArraySerializer::decode_typed over Vec<u64>.  With no target the path is
\* sliced before it is looked at: &path[1..] of an empty path panics.
ArrayDecode(entity, path, reader) ==
    IF entity # None
    THEN LET e == IF Len(entity[1]) # ArraySize THEN resize(entity[1], ArraySize, 0)
                  ELSE entity[1]
         IN  IF path = <<>>
             THEN DecOut("Err", "Empty path is not allowed for ArraySerializer", Some(e),
                         reader, <<>>)
             ELSE IF path[1] < ArraySize
             THEN LET r == PrimitiveDecode(Some(e[path[1] + 1]), Tail(path), reader)
                  IN  DecOut(r.ret, r.err,
                             IF r.ret # "Ok" THEN Some(e)
                             ELSE Some([e EXCEPT ![path[1] + 1] = r.entity[1]]),
                             r.reader, <<InnerCall(TRUE, path[1])>>)
             ELSE DecOut("Err", "Invalid array index", Some(e), reader, <<>>)
    ELSE IF path = <<>>
    THEN DecOut("panic", "range start index 1 out of range for slice of length 0", None,
                reader, <<>>)
    ELSE LET r == PrimitiveDecode(None, Tail(path), reader)
         IN  DecOut(r.ret, r.err, None, r.reader, <<InnerCall(FALSE, path[1])>>)

\* PolymorphicSerializer.serializers: the candidate classes, each a
\* CustomEntitySerializer of its own struct type
Candidates == <<"TA", "TB">>

candidate_new_entity(i) == [type |-> Candidates[i + 1], fields |-> new_struct]

\* CustomEntitySerializer<T>::decode of candidate i: the downcast, then decode_typed
CandidateDecode(i, entity, path, reader) ==
    IF entity # None /\ entity[1].type # Candidates[i + 1]
    THEN DecOut("Err", "Entity type mismatch in CustomEntitySerializer", entity, reader, <<>>)
    ELSE LET r == StructDecode(IF entity = None THEN None ELSE Some(entity[1].fields),
                               path, reader)
         IN  DecOut(r.ret, r.err,
                    IF entity = None THEN None
                    ELSE Some([entity[1] EXCEPT !.fields = r.entity[1]]),
                    r.reader, <<>>)

\* the two payloads PolymorphicSerializer::decode accepts
PolymorphicEntity(index, item) ==
    [shape |-> "PolymorphicEntity", index |-> index, item |-> Some(item)]

BareIndex(index) == [shape |-> "usize", index |-> index, item |-> None]

\* PolymorphicSerializer::decode.  An empty path reads the presence bit and
\* the serializer index; a non-empty path indexes self.serializers with the
\* stored index, which panics when the index is out of bounds.
PolymorphicDecode(entity, path, reader) ==
    IF entity = None
    THEN DecOut("Err", "PolymorphicSerializer expects a non-empty entity", entity, reader,
                <<>>)
    ELSE IF path = <<>>
    THEN IF Len(reader) < 2
         THEN DecOut("Err", "unexpected end of file", entity, <<>>, <<>>)
         ELSE IF entity[1].shape = "usize"
         THEN DecOut("Ok", "", Some(BareIndex(reader[2])), Tail(Tail(reader)), <<>>)
         ELSE IF reader[2] < Len(Candidates)
         THEN DecOut("Ok", "",
                     Some(PolymorphicEntity(reader[2], candidate_new_entity(reader[2]))),
                     Tail(Tail(reader)), <<>>)
         ELSE DecOut("Err", "Unknown polymorphic serializer index", entity,
                     Tail(Tail(reader)), <<>>)
    ELSE IF entity[1].index >= Len(Candidates)
    THEN DecOut("panic", "index out of bounds", entity, reader, <<>>)
    ELSE LET r == CandidateDecode(entity[1].index, entity[1].item, path, reader)
         IN  DecOut(r.ret, r.err,
                    IF entity[1].shape = "usize" THEN entity
                    ELSE Some([entity[1] EXCEPT !.item = r.entity]),
                    r.reader,
                    <<InnerCall(entity[1].shape # "usize", entity[1].index)>>)

\* history: the decode call made last
DecLog(decoder, target, path, reader, out) ==
    [decoder |-> decoder, target |-> target, path |-> path, ret |-> out.ret,
     err |-> out.err, inner |-> out.inner,
     consumed |-> SubSeq(reader, 1, Len(reader) - Len(out.reader))]

DecStart ==
    /\ dec_opt = None
    /\ dec_vec = <<>>
    /\ dec_arr = <<>>
    /\ dec_poly = PolymorphicEntity(0, candidate_new_entity(0))
    /\ dec_skip = BareIndex(0)
    /\ dec_log = [decoder |-> "", target |-> "", path |-> <<>>, ret |-> "", err |-> "",
                  inner |-> <<>>, consumed |-> <<>>]
    /\ dec_hist = [presence |-> -1, vec_len |-> 0]

\* one decode through the Optional decoder, into the target or with none
OptionalStep(target, path, reader) ==
    /\ \E out \in {OptionalDecode(IF target THEN Some(dec_opt) ELSE None, path, reader)} :
          /\ dec_opt' = IF target THEN out.entity[1] ELSE dec_opt
          /\ dec_log' = DecLog("Optional", IF target THEN "some" ELSE "none", path,
                               reader, out)
          /\ dec_hist' = IF target /\ path = <<>> /\ out.ret = "Ok"
                         THEN [dec_hist EXCEPT !.presence = Head(reader)] ELSE dec_hist
    /\ UNCHANGED <<dec_vec, dec_arr, dec_poly, dec_skip>>
    /\ UNCHANGED <<listVars, fpVars, parserVars, frameVars, unitVars>>

\* one decode through the Vector decoder
VectorStep(target, path, reader) ==
    /\ \E out \in {VectorDecode(IF target THEN Some(dec_vec) ELSE None, path, reader)} :
          /\ dec_vec' = IF target THEN out.entity[1] ELSE dec_vec
          /\ dec_log' = DecLog("Vector", IF target THEN "some" ELSE "none", path,
                               reader, out)
          /\ dec_hist' = IF target /\ path = <<>> /\ out.ret = "Ok"
                         THEN [dec_hist EXCEPT !.vec_len = Head(reader)] ELSE dec_hist
    /\ UNCHANGED <<dec_opt, dec_arr, dec_poly, dec_skip>>
    /\ UNCHANGED <<listVars, fpVars, parserVars, frameVars, unitVars>>

\* one decode through the Array decoder
ArrayStep(target, path, reader) ==
    /\ \E out \in {ArrayDecode(IF target THEN Some(dec_arr) ELSE None, path, reader)} :
          /\ dec_arr' = IF target THEN out.entity[1] ELSE dec_arr
          /\ dec_log' = DecLog("Array", IF target THEN "some" ELSE "none", path,
                               reader, out)
    /\ UNCHANGED <<dec_opt, dec_vec, dec_poly, dec_skip, dec_hist>>
    /\ UNCHANGED <<listVars, fpVars, parserVars, frameVars, unitVars>>

\* one decode through the Polymorphic decoder, into a PolymorphicEntity or
\* into a bare usize
PolymorphicStep(shape, path, reader) ==
    /\ \E out \in {PolymorphicDecode(Some(IF shape = "usize" THEN dec_skip ELSE dec_poly),
                                     path, reader)} :
          /\ dec_poly' = IF shape = "usize" THEN dec_poly ELSE out.entity[1]
          /\ dec_skip' = IF shape = "usize" THEN out.entity[1] ELSE dec_skip
          /\ dec_log' = DecLog("Polymorphic", shape, path, reader, out)
    /\ UNCHANGED <<dec_opt, dec_vec, dec_arr, dec_hist>>
    /\ UNCHANGED <<listVars, fpVars, parserVars, frameVars, unitVars>>

----------------------------------------------------------------------------
(* string_table.rs: the instance-baseline table *)

STRING_TABLE_INSTANCE_BASELINE == "instancebaseline"

STRING_TABLE_PARSE_MAX_CACHE_SIZE == Pow2(5)

\* StringTable::new: map is key -> (index, Option<bytes>), cache is key -> payload
NewStringTable == [map |-> EmptyFn, cache |-> EmptyFn]

get_raw(t, key) == IF key \in DOMAIN t.map THEN t.map[key].value ELSE None

get_cached(t, key) == IF key \in DOMAIN t.cache THEN Some(t.cache[key]) ELSE None

put_cache(t, key, value) == [t EXCEPT !.cache = Put(t.cache, key, value)]

purge_cache(t) == [t EXCEPT !.cache = EmptyFn]

\* a faulty insert that keeps the cached prototype of the key
StringTable_insert_keep_cache(t, key, index, value) ==
    [map |-> Put(t.map, key, [index |-> index, value |-> value]),
     cache |-> t.cache]

StringTable_insert(t, key, index, value) ==
    [map |-> Put(t.map, key, [index |-> index, value |-> value]),
     cache |-> Drop(t.cache, key)]

\* keys are strings of characters; u32::to_string writes the decimal digits
Digits == <<"0", "1", "2", "3", "4", "5", "6", "7", "8", "9">>

RECURSIVE to_string(_)
to_string(n) ==
    IF n < 10 THEN <<Digits[n + 1]>>
    ELSE to_string(n \div 10) \o <<Digits[(n % 10) + 1]>>

\* the key of an entry: plain, or the first `size` characters of the key at
\* `pos` of the recent-keys history followed by the string read
read_key(keys, k) ==
    IF k.hist
    THEN IF k.pos >= Len(keys) THEN k.str
         ELSE IF k.size > Len(keys[k.pos + 1]) THEN keys[k.pos + 1] \o k.str
         ELSE SubSeq(keys[k.pos + 1], 1, k.size) \o k.str
    ELSE k.str

push_key(keys, key) ==
    IF Len(keys) + 1 > STRING_TABLE_PARSE_MAX_CACHE_SIZE
    THEN Tail(Append(keys, key)) ELSE Append(keys, key)

\* BaselineStringTableParser::update over the entries the data holds.  An
\* entry without a key takes the key of a map entry with its index: find_map
\* over a HashMap yields any one of them, so the result is a set of outcomes,
\* each the table and (history) the keys written and, per entry, its index,
\* the key it was stored under and the table after it.
RECURSIVE update(_, _, _, _, _, _)
update(t, written, entries, idx, keys, steps) ==
    IF entries = <<>> THEN {[table |-> t, written |-> written, steps |-> steps]}
    ELSE LET e == Head(entries)
             i == IF e.incr THEN idx + 1 ELSE e.index + 1
             k == IF e.key = None THEN None ELSE Some(read_key(keys, e.key[1]))
             keys2 == IF k = None THEN keys ELSE push_key(keys, k[1])
             found == IF k # None THEN {k[1]}
                      ELSE {kk \in DOMAIN t.map : t.map[kk].index = i}
         IN  IF found = {}
             THEN update(t, written, Tail(entries), i, keys2,
                         Append(steps, [idx |-> i, key |-> None, table |-> t]))
             ELSE UNION {update(StringTable_insert(t, kk, i, e.value),
                                written \cup {kk}, Tail(entries), i, keys2,
                                Append(steps, [idx |-> i, key |-> Some(kk),
                                               table |-> StringTable_insert(t, kk, i,
                                                                            e.value)]))
                         : kk \in found}

----------------------------------------------------------------------------
(* entity.rs: class info, send tables and packet entities *)

\* the creators the application registered before the first frame: class
\* name -> the entity type T of its CustomEntitySerializer<T>
entity_serializer_creators == ("CA" :> "TA") @@ ("CB" :> "TB")

\* handle_demo_class_info: the classes with both an id and a name, collected
\* into a map (a later pair of the same id replaces an earlier one)
RECURSIVE collect_classes(_, _)
collect_classes(classes, acc) ==
    IF classes = <<>> THEN acc
    ELSE LET c == Head(classes)
         IN  collect_classes(Tail(classes),
                 IF c.class_id # None /\ c.network_name # None
                 THEN Put(acc, c.class_id[1], c.network_name[1]) ELSE acc)

\* a symbol index that msg.symbols does not hold
NoSymbol == "<no symbol>"

\* sym.and_then(|sym| msg.symbols.get(sym as usize)): a symbol reference is
\* None, or Some of the string it names
symbol(sym) == IF sym = None THEN None ELSE IF sym[1] = NoSymbol THEN None ELSE sym

IsSome(x) == x # None

\* a built field: its name and the decoder it got, which is derived from the
\* class serializers `of`
BuiltField(var_name, kind, of) == [name |-> var_name, kind |-> kind, of |-> of]

\* a faulty build_field: a field whose class serializer is not built yet gets
\* the decoder of its type
build_field_lenient(msg, serializers, field_idx) ==
    IF field_idx < 0 \/ field_idx >= Len(msg.fields) THEN Err("Missing field in serializer")
    ELSE LET field_pb == msg.fields[field_idx + 1]
             var_name == symbol(field_pb.var_name_sym)
         IN  IF symbol(field_pb.var_type_sym) = None
             THEN Err("Missing variable type in field")
             ELSE IF var_name = None THEN Err("Missing variable name in field")
             ELSE Ok(BuiltField(var_name[1], "primitive", <<>>))

\* handle_demo_send_tables, the body of `for field_idx in fields_index` for a
\* field that is not in fields_cache: `serializers` holds the classes built
\* by the entries before this one.  FieldType::new and get_serializer are
\* taken to succeed.
build_field(msg, serializers, field_idx) ==
    IF field_idx < 0 \/ field_idx >= Len(msg.fields) THEN Err("Missing field in serializer")
    ELSE LET field_pb == msg.fields[field_idx + 1]
             var_name == symbol(field_pb.var_name_sym)
             candidates == SelectSeq(field_pb.polymorphic_types, IsSome)
             serializer_name == symbol(field_pb.field_serializer_name_sym)
         IN  IF symbol(field_pb.var_type_sym) = None
             THEN Err("Missing variable type in field")
             ELSE IF var_name = None THEN Err("Missing variable name in field")
             ELSE IF field_pb.polymorphic_types # <<>>
             THEN IF \E i \in DOMAIN candidates :
                        \/ symbol(candidates[i]) = None
                        \/ symbol(candidates[i])[1] \notin DOMAIN serializers
                  THEN Err("Missing polymorphic serializer")
                  ELSE Ok(BuiltField(var_name[1], "polymorphic",
                                     [i \in DOMAIN candidates |-> candidates[i][1]]))
             ELSE IF serializer_name # None
             THEN IF serializer_name[1] \notin DOMAIN serializers
                  THEN Err("Missing serializer for field")
                  ELSE Ok(BuiltField(var_name[1], "class", <<serializer_name[1]>>))
             ELSE Ok(BuiltField(var_name[1], "primitive", <<>>))

\* the loop `for field_idx in serializer_pb.fields_index`: a field built for
\* an earlier class is taken from fields_cache
RECURSIVE build_fields(_, _, _, _, _)
build_fields(msg, serializers, fields_index, fields_cache, serializer_fields) ==
    IF fields_index = <<>>
    THEN Ok([fields |-> serializer_fields, fields_cache |-> fields_cache])
    ELSE LET field_idx == Head(fields_index)
         IN  IF /\ field_idx >= 0 /\ field_idx < Len(fields_cache)
                /\ fields_cache[field_idx + 1] # None
             THEN build_fields(msg, serializers, Tail(fields_index), fields_cache,
                               Append(serializer_fields, fields_cache[field_idx + 1][1]))
             ELSE LET f == build_field(msg, serializers, field_idx)
                  IN  IF ~f.ok THEN Err(f.err)
                      ELSE build_fields(msg, serializers, Tail(fields_index),
                               [fields_cache EXCEPT ![field_idx + 1] = Some(f.val[1])],
                               Append(serializer_fields, f.val[1]))

\* handle_demo_send_tables, the loop over msg.serializers: a registered class
\* gets its creator's serializer and serialize_baseline, any other class the
\* UnknownEntitySerializer, over the names of the fields built for it
RECURSIVE build_serializers(_, _, _, _)
build_serializers(msg, pbs, fields_cache, acc) ==
    IF pbs = <<>> THEN Ok(acc)
    ELSE LET pb == Head(pbs)
         IN  IF pb.name = None THEN Err("Missing serializer name in serializer")
             ELSE LET n == pb.name[1]
                      f == build_fields(msg, acc, pb.fields_index, fields_cache, <<>>)
                      known == n \in DOMAIN entity_serializer_creators
                      ser == ClassSerializer(IF known THEN entity_serializer_creators[n]
                                             ELSE UnknownEntity.type,
                                             [i \in DOMAIN f.val[1].fields |->
                                                  f.val[1].fields[i].name])
                  IN  IF ~f.ok THEN Err(f.err)
                      ELSE build_serializers(msg, Tail(pbs), f.val[1].fields_cache,
                               Put(acc, n, [serializer |-> ser, serialize_baseline |-> known]))

\* a faulty class_serializer: a class without a serializer is decoded as
\* an unknown entity
class_serializer_lenient(class_id) ==
    IF class_id \notin DOMAIN class_info THEN Err("Unknown class id")
    ELSE IF class_info[class_id] \notin DOMAIN entity_serializers
         THEN Ok([serializer |-> ClassSerializer(UnknownEntity.type, <<>>),
                  serialize_baseline |-> FALSE])
         ELSE Ok(entity_serializers[class_info[class_id]])

\* handle_packet_entities, create: the class name of the id and the
\* serializer installed under that name
class_serializer(class_id) ==
    IF class_id \notin DOMAIN class_info THEN Err("Unknown class id")
    ELSE IF class_info[class_id] \notin DOMAIN entity_serializers
         THEN Err("Unknown serializer")
         ELSE Ok(entity_serializers[class_info[class_id]])

\* parse_entity_from_baseline: the payload, and the table with its cache
BaselineOut(r, ib) == [ok |-> r.ok, err |-> r.err, val |-> r.val, baseline |-> ib]

parse_entity_from_baseline(ib, class_id, ser) ==
    IF ib = None THEN BaselineOut(Ok(new_entity(ser)), ib)
    ELSE LET t == ib[1]
             baseline_key == to_string(class_id)
             cached == get_cached(t, baseline_key)
             raw == get_raw(t, baseline_key)
         IN  IF cached # None THEN BaselineOut(clone_entity(ser, cached[1]), ib)
             ELSE IF raw = None THEN BaselineOut(Ok(new_entity(ser)), ib)
             ELSE LET d == decode_all(ser, new_entity(ser), raw[1])
                      c == clone_entity(ser, d.val[1])
                  IN  IF ~d.ok THEN BaselineOut(Err(d.err), ib)
                      ELSE IF ~c.ok THEN BaselineOut(c, ib)
                      ELSE BaselineOut(Ok(d.val[1]),
                                       Some(put_cache(t, baseline_key, c.val[1])))

\* get_mut(idx) followed by a write of the payload
set_item(list, idx, item) ==
    [list EXCEPT ![idx \div Pow2(ENTITY_CHUNK_SHIFT)].entities[
                     BitAnd(idx, ENTITY_OFFSET_MASK)].item = item]

\* what one entry of handle_packet_entities leaves: the error ("" for none),
\* what it did, the entity list, the baseline table and (history) the payload
\* of the baseline step, the reads made on the bit stream of the message and
\* the field paths handed to the decoder of the entity, in order
EntryOut(err, kind, list, ib, base, reads, dispatched) ==
    [err |-> err, kind |-> kind, list |-> list, baseline |-> ib, base |-> base,
     reads |-> reads, dispatched |-> dispatched]

\* idx += r.read_ubit_int()? as i32 + 1; let cmd = r.read_unsigned::<2, u8>()?
HeadReads == <<"read_ubit_int", "cmd">>

\* the reads of a create: class_id, serial, _unk_0
CreateReads == <<"class_id", "serial", "read_varint_u64">>

\* the number of decode calls the loop over field_path_cache makes: it stops
\* at the first that fails
RECURSIVE decode_calls(_, _, _)
decode_calls(ser, entity, upd) ==
    IF upd = <<>> THEN 0
    ELSE LET r == decode(ser, entity, Head(upd).f, Head(upd).v)
         IN  IF r.ok THEN 1 + decode_calls(ser, r.val[1], Tail(upd)) ELSE 1

\* a faulty skip: the stream of every unknown entity is left unread
skip_fields_any_entry(last, item) == item.type = UnknownEntity.type

\* entry == entries - 1 && entity.item.is::<UnknownEntity>()
skip_fields(last, item) == last /\ item.type = UnknownEntity.type

\* a faulty update_entity: an entry whose entity is missing is skipped as a
\* missing delete is
update_entity_skip_missing(list, ib, idx, last, in, kind, base, reads) ==
    LET found == get(list, AsUsize(idx))
    IN  IF found = None
        THEN EntryOut("", kind, list, ib, base, reads, <<>>)
        ELSE IF skip_fields(last, found[1].item)
        THEN EntryOut("", kind, list, ib, base, reads, <<>>)
        ELSE IF in.eof = "fields"
        THEN EntryOut("unexpected end of file", "error", list, ib, base,
                      Append(reads, "read_field_paths"), <<>>)
        ELSE LET d == decode_all(found[1].serializer, found[1].item, in.upd)
                 n == decode_calls(found[1].serializer, found[1].item, in.upd)
             IN  EntryOut(d.err, IF d.ok THEN kind ELSE "error",
                          set_item(list, idx, d.val[1]), ib, base,
                          Append(reads, "read_field_paths"),
                          [i \in 1 .. n |-> in.upd[i].f])

\* handle_packet_entities, the update of the entity at idx; `reads` are the
\* reads the entry made so far.  field_path_cache is empty when
\* read_field_paths is called: every call that went through cleared it.
update_entity(list, ib, idx, last, in, kind, base, reads) ==
    LET found == get(list, AsUsize(idx))
    IN  IF found = None
        THEN EntryOut("Entity not found for update", "error", list, ib, base, reads, <<>>)
        ELSE IF skip_fields(last, found[1].item)
        THEN EntryOut("", kind, list, ib, base, reads, <<>>)
        ELSE IF in.eof = "fields"
        THEN EntryOut("unexpected end of file", "error", list, ib, base,
                      Append(reads, "read_field_paths"), <<>>)
        ELSE LET d == decode_all(found[1].serializer, found[1].item, in.upd)
                 n == decode_calls(found[1].serializer, found[1].item, in.upd)
             IN  EntryOut(d.err, IF d.ok THEN kind ELSE "error",
                          set_item(list, idx, d.val[1]), ib, base,
                          Append(reads, "read_field_paths"),
                          [i \in 1 .. n |-> in.upd[i].f])

\* handle_packet_entities, the creation of an entity at idx
create_entity(list, ib, idx, last, in) ==
    LET cs == class_serializer(in.class_id)
        reads == HeadReads \o CreateReads
    IN  IF ~cs.ok THEN EntryOut(cs.err, "error", list, ib, None, reads, <<>>)
        ELSE LET ser == cs.val[1].serializer
                 b == IF cs.val[1].serialize_baseline
                      THEN parse_entity_from_baseline(ib, in.class_id, ser)
                      ELSE BaselineOut(Ok(new_entity(ser)), ib)
             IN  IF ~b.ok THEN EntryOut(b.err, "error", list, ib, None, reads, <<>>)
                 ELSE update_entity(
                          insert(list, AsUsize(idx),
                                 EntityItem(idx, in.serial, b.val[1], ser)).list,
                          b.baseline, idx, last, in, "create",
                          IF cs.val[1].serialize_baseline THEN Some(b.val[1]) ELSE None,
                          reads)

\* a faulty delete_entity: a missing entity is an error
delete_entity_strict(list, ib, idx) ==
    LET d == delete(list, AsUsize(idx))
    IN  IF d.ret = None
        THEN EntryOut("Entity not found for deletion", "error", d.list, ib, None,
                      HeadReads, <<>>)
        ELSE EntryOut("", "delete", d.list, ib, None, HeadReads, <<>>)

\* handle_packet_entities, the deletion: a missing entity is logged only
delete_entity(list, ib, idx) ==
    LET d == delete(list, AsUsize(idx))
    IN  EntryOut("", IF d.ret = None THEN "delete_missing" ELSE "delete",
                 d.list, ib, None, HeadReads, <<>>)

\* a faulty packet_entry: bit 1 of cmd is looked at first, so that a cmd of 3
\* creates
packet_entry_create_first(list, ib, idx, last, in) ==
    IF in.eof = "head"
    THEN EntryOut("unexpected end of file", "error", list, ib, None, <<>>, <<>>)
    ELSE IF BitAnd(in.cmd, 2) # 0 THEN create_entity(list, ib, idx, last, in)
    ELSE IF BitAnd(in.cmd, 1) # 0 THEN delete_entity(list, ib, idx)
    ELSE IF in.has_pvs /\ BitAnd(in.pvs, 1) # 0
    THEN EntryOut("", "pvs_skip", list, ib, None, Append(HeadReads, "pvs"), <<>>)
    ELSE update_entity(list, ib, idx, last, in, "update", None,
                       IF in.has_pvs THEN Append(HeadReads, "pvs") ELSE HeadReads)

\* one pass of the loop `for entry in 0..entries`
packet_entry(list, ib, idx, last, in) ==
    IF in.eof = "head"
    THEN EntryOut("unexpected end of file", "error", list, ib, None, <<>>, <<>>)
    ELSE IF BitAnd(in.cmd, 1) = 0
    THEN IF BitAnd(in.cmd, 2) # 0 THEN create_entity(list, ib, idx, last, in)
         ELSE IF in.has_pvs /\ BitAnd(in.pvs, 1) # 0
         THEN EntryOut("", "pvs_skip", list, ib, None, Append(HeadReads, "pvs"), <<>>)
         ELSE update_entity(list, ib, idx, last, in, "update", None,
                            IF in.has_pvs THEN Append(HeadReads, "pvs") ELSE HeadReads)
    ELSE delete_entity(list, ib, idx)

----------------------------------------------------------------------------
(* the handlers as steps of the parser *)

PeIdle == [pc |-> "idle", idx |-> -1, entry |-> 0, entries |-> 0, has_pvs |-> FALSE]

NoLog == [cmd |-> 0, idx |-> -1, class_id |-> 0, kind |-> "none",
          prev |-> None, base |-> None, soft |-> 0,
          entry |-> [in |-> None, last |-> FALSE, before |-> None],
          reads |-> <<>>, dispatched |-> <<>>]

\* CsDemoParser::new_pre_registered
\* history: nothing was called yet
NoFrame == [call |-> "none", ret |-> "", err |-> "", cmd |-> 0, tick |-> 0,
            events |-> <<>>, handler |-> "", overflow |-> FALSE, read |-> FALSE]

ParserStart ==
    /\ class_info = EmptyFn
    /\ entity_serializers = EmptyFn
    /\ instance_baseline = None
    /\ string_tables = <<>>
    /\ pe = PeIdle
    /\ result = ""
    /\ pe_log = NoLog
    /\ baseline_hist = EmptyFn
    /\ tick = 0
    /\ map_name = ""
    /\ network_protocol = 0
    /\ late_creators = {}
    /\ game_event_serializers = {}
    /\ frame_log = NoFrame
    /\ frame_hist = [parsed |-> FALSE, last_tick |-> 0, failed |-> FALSE]

\* history: the class ids whose baseline entry a message wrote are no longer clean
Dirty(hist, keys) ==
    [c \in DOMAIN hist |->
        IF to_string(c) \in keys THEN [hist[c] EXCEPT !.clean = FALSE] ELSE hist[c]]

DirtyAll(hist) == [c \in DOMAIN hist |-> [hist[c] EXCEPT !.clean = FALSE]]

HandleDemoClassInfo(msg) ==
    /\ pe.pc = "idle"
    /\ class_info' = collect_classes(msg, EmptyFn)
    /\ result' = ""
    /\ baseline_hist' = DirtyAll(baseline_hist)
    /\ pe_log' = NoLog
    /\ UNCHANGED <<entity_serializers, instance_baseline, string_tables, pe>>
    /\ UNCHANGED <<listVars, fpVars, decVars, unitVars>>

\* a faulty handle_demo_send_tables: the prototype cache is purged before the
\* installed decoders are looked at
HandleDemoSendTables_purge_first(msg) ==
    /\ pe.pc = "idle"
    /\ IF entity_serializers # EmptyFn
       THEN /\ result' = "Demo send tables already processed"
            /\ instance_baseline' = IF instance_baseline = None THEN None
                                    ELSE Some(purge_cache(instance_baseline[1]))
            /\ UNCHANGED entity_serializers
       ELSE /\ instance_baseline' = IF instance_baseline = None THEN None
                                    ELSE Some(purge_cache(instance_baseline[1]))
            /\ IF ~msg.data
               THEN /\ result' = "Missing data in demo send tables"
                    /\ UNCHANGED entity_serializers
               ELSE \E b \in {build_serializers(msg, msg.serializers,
                                                      [i \in DOMAIN msg.fields |-> None],
                                                      EmptyFn)} :
                        /\ result' = b.err
                        /\ entity_serializers' = IF b.ok THEN b.val[1]
                                                 ELSE entity_serializers
    /\ baseline_hist' = EmptyFn
    /\ pe_log' = NoLog
    /\ UNCHANGED <<class_info, string_tables, pe>>
    /\ send_tables_log' = IF entity_serializers = EmptyFn /\ msg.data
                          THEN Some([msg |-> msg, result |-> result',
                                     installed |-> entity_serializers'])
                          ELSE None
    /\ UNCHANGED <<listVars, fpVars, decVars>>
    /\ UNCHANGED <<varint_log, quantized, quant_log, trees, huff_n, huff_log, huff_reader,
                   constructed, callVars>>

HandleDemoSendTables(msg) ==
    /\ pe.pc = "idle"
    /\ IF entity_serializers # EmptyFn
       THEN /\ result' = "Demo send tables already processed"
            /\ UNCHANGED <<entity_serializers, instance_baseline>>
       ELSE /\ instance_baseline' = IF instance_baseline = None THEN None
                                    ELSE Some(purge_cache(instance_baseline[1]))
            /\ IF ~msg.data
               THEN /\ result' = "Missing data in demo send tables"
                    /\ UNCHANGED entity_serializers
               ELSE \E b \in {build_serializers(msg, msg.serializers,
                                                      [i \in DOMAIN msg.fields |-> None],
                                                      EmptyFn)} :
                        /\ result' = b.err
                        /\ entity_serializers' = IF b.ok THEN b.val[1]
                                                 ELSE entity_serializers
    /\ baseline_hist' = EmptyFn
    /\ pe_log' = NoLog
    /\ UNCHANGED <<class_info, string_tables, pe>>
    /\ send_tables_log' = IF entity_serializers = EmptyFn /\ msg.data
                          THEN Some([msg |-> msg, result |-> result',
                                     installed |-> entity_serializers'])
                          ELSE None
    /\ UNCHANGED <<listVars, fpVars, decVars>>
    /\ UNCHANGED <<varint_log, quantized, quant_log, trees, huff_n, huff_log, huff_reader,
                   constructed, callVars>>

\* the table an update goes to, after `entries` were read; msg.eof: the data
\* ends (or fails to decompress) before num_entries entries were read
UpdateTable(t, created, msg) ==
    /\ \E u \in update(t, {}, msg.entries, 0, <<>>, <<>>) :
           /\ instance_baseline' = Some(u.table)
           /\ baseline_hist' = IF created THEN DirtyAll(baseline_hist)
                               ELSE Dirty(baseline_hist, u.written)
    /\ result' = IF msg.eof THEN "unexpected end of file" ELSE ""

HandleCreateStringTable(msg) ==
    /\ pe.pc = "idle"
    /\ IF ~msg.complete
       THEN /\ result' = "Missing values in create string table message"
            /\ UNCHANGED <<string_tables, instance_baseline, baseline_hist>>
       ELSE /\ string_tables' = Append(string_tables, msg.name)
            /\ IF msg.name # STRING_TABLE_INSTANCE_BASELINE
               THEN /\ result' = ""
                    /\ UNCHANGED <<instance_baseline, baseline_hist>>
               ELSE IF ~msg.baseline_fields
               THEN /\ result' = "Missing values in baseline string table"
                    /\ UNCHANGED <<instance_baseline, baseline_hist>>
               ELSE UpdateTable(NewStringTable, TRUE, msg)
    /\ pe_log' = NoLog
    /\ UNCHANGED <<class_info, entity_serializers, pe>>
    /\ UNCHANGED <<listVars, fpVars, decVars, unitVars>>

HandleUpdateStringTable(msg) ==
    /\ pe.pc = "idle"
    /\ IF ~msg.complete
       THEN /\ result' = "Missing values in update string table message"
            /\ UNCHANGED <<instance_baseline, baseline_hist>>
       ELSE IF \/ AsUsize(msg.table_id) >= Len(string_tables)
               \/ string_tables[msg.table_id + 1] # STRING_TABLE_INSTANCE_BASELINE
               \/ instance_baseline = None
       THEN /\ result' = ""
            /\ UNCHANGED <<instance_baseline, baseline_hist>>
       ELSE UpdateTable(instance_baseline[1], FALSE, msg)
    /\ pe_log' = NoLog
    /\ UNCHANGED <<class_info, entity_serializers, string_tables, pe>>
    /\ UNCHANGED <<listVars, fpVars, decVars, unitVars>>

\* handle_demo_string_tables, the items of one table: item k is inserted
\* with index k, an item without a name is logged and skipped
RECURSIVE insert_items(_, _, _)
insert_items(u, items, index) ==
    IF items = <<>> THEN u
    ELSE insert_items(
             IF Head(items).str = None THEN u
             ELSE [table |-> StringTable_insert(u.table, Head(items).str[1], index,
                                                Head(items).data),
                   written |-> u.written \cup {Head(items).str[1]}],
             Tail(items), index + 1)

RECURSIVE insert_tables(_, _)
insert_tables(u, tables) ==
    IF tables = <<>> THEN u
    ELSE insert_tables(
             IF Head(tables).table_name = Some(STRING_TABLE_INSTANCE_BASELINE)
             THEN insert_items(u, Head(tables).items, 0) ELSE u,
             Tail(tables))

HandleDemoStringTables(msg) ==
    /\ pe.pc = "idle"
    /\ IF instance_baseline = None
       THEN UNCHANGED <<instance_baseline, baseline_hist>>
       ELSE \E u \in {insert_tables([table |-> instance_baseline[1], written |-> {}],
                                    msg)} :
                /\ instance_baseline' = Some(u.table)
                /\ baseline_hist' = Dirty(baseline_hist, u.written)
    /\ result' = ""
    /\ pe_log' = NoLog
    /\ UNCHANGED <<class_info, entity_serializers, string_tables, pe>>
    /\ UNCHANGED <<listVars, fpVars, decVars, unitVars>>

\* handle_packet_entities up to the loop
HandlePacketEntities(msg) ==
    /\ pe.pc = "idle"
    /\ IF ~msg.complete
       THEN /\ result' = "Missing data or number of entries in packet entities"
            /\ UNCHANGED pe
       ELSE /\ result' = ""
            /\ pe' = [pc |-> "loop", idx |-> -1, entry |-> 0,
                      entries |-> msg.updated_entries, has_pvs |-> msg.has_pvs]
    /\ pe_log' = NoLog
    /\ UNCHANGED <<class_info, entity_serializers, instance_baseline, string_tables,
                   baseline_hist>>
    /\ UNCHANGED <<listVars, fpVars, decVars, unitVars>>

\* one entry of the loop; `in` is what the bit stream holds for it
PacketEntitiesEntry(in) ==
    /\ pe.pc = "loop"
    /\ pe.entry < pe.entries
    /\ \E idx \in {pe.idx + in.delta + 1} :
       \E o \in {packet_entry(entity_chunk, instance_baseline, idx,
                              pe.entry = pe.entries - 1,
                              [in EXCEPT !.has_pvs = pe.has_pvs])} :
           /\ entity_chunk' = o.list
           /\ instance_baseline' = o.baseline
           /\ result' = o.err
           /\ pe' = IF o.err = "" THEN [pe EXCEPT !.idx = idx, !.entry = @ + 1]
                    ELSE PeIdle
           /\ pe_log' = [cmd |-> in.cmd, idx |-> idx, class_id |-> in.class_id,
                         kind |-> o.kind,
                         prev |-> IF o.base # None /\ in.class_id \in DOMAIN baseline_hist
                                  THEN Some(baseline_hist[in.class_id]) ELSE None,
                         base |-> o.base,
                         soft |-> pe_log.soft
                                  + (IF o.kind = "delete_missing" THEN 1 ELSE 0),
                         entry |-> [in |-> Some([in EXCEPT !.has_pvs = pe.has_pvs]),
                                    last |-> pe.entry = pe.entries - 1,
                                    before |-> get(entity_chunk, AsUsize(idx))],
                         reads |-> o.reads, dispatched |-> o.dispatched]
           /\ baseline_hist' = IF o.base = None THEN baseline_hist
                               ELSE Put(baseline_hist, in.class_id,
                                        [payload |-> o.base[1], clean |-> TRUE])
    /\ UNCHANGED <<class_info, entity_serializers, string_tables>>
    /\ UNCHANGED <<shadow, list_ret, fpVars, decVars, unitVars>>

\* the loop is over: Ok(())
PacketEntitiesReturn ==
    /\ pe.pc = "loop"
    /\ pe.entry >= pe.entries
    /\ pe' = PeIdle
    /\ result' = ""
    /\ UNCHANGED <<class_info, entity_serializers, instance_baseline, string_tables,
                   baseline_hist>>
    /\ pe_log' = NoLog
    /\ UNCHANGED <<listVars, fpVars, decVars, unitVars>>

----------------------------------------------------------------------------
(* bit.rs: the varints of the bit reader *)

\* An unsigned integer of `width` bits is carried as the set of the positions
\* of its one bits.
\* ((v & 0x7F) as $t) << shift, for a shift below the width: the bits shifted
\* past the top position are lost
Shl(b, shift, width) ==
    {shift + j : j \in {i \in 0 .. 6 : (b \div Pow2(i)) % 2 = 1}} \cap (0 .. width - 1)

\* v >> 1
Shr1(v) == {p - 1 : p \in v \ {0}}

\* !v
Not(v, width) == (0 .. width - 1) \ v

\* impl_read_varint!, the unsigned function, over the bytes left in the
\* reader.  `shift` grows by 7 per byte without a limit; a shift of `width`
\* or more panics in a build with overflow checks and is taken modulo the
\* width in a build without them.  The branch for a reader that is not byte
\* aligned reads the same 7 value bits, then the same flag bit.
RECURSIVE read_varint_unsigned(_, _, _, _, _)
read_varint_unsigned(width, bytes, value, shift, overflow_checks) ==
    IF bytes = <<>>
    THEN [kind |-> "err", value |-> {}, rest |-> <<>>]
    ELSE IF shift >= width /\ overflow_checks
    THEN [kind |-> "panic", value |-> {}, rest |-> <<>>]
    ELSE LET v == value \cup Shl(Head(bytes), shift % width, width)
         IN  IF Head(bytes) < 128
             THEN [kind |-> "ok", value |-> v, rest |-> Tail(bytes)]
             ELSE read_varint_unsigned(width, Tail(bytes), v, shift + 7, overflow_checks)

\* a mutant of zigzag: the complement is taken before the shift
zigzag_not_first(v, width) ==
    IF 0 \in v THEN Shr1(Not(v, width)) ELSE Shr1(v)

\* if v & 1 != 0 { (!(v >> 1)) as $signed_t } else { (v >> 1) as $signed_t }:
\* the cast keeps the bits
zigzag(v, width) ==
    IF 0 \in v THEN Not(Shr1(v), width) ELSE Shr1(v)

\* impl_read_varint!, the signed function
read_varint_signed(width, bytes, overflow_checks) ==
    LET u == read_varint_unsigned(width, bytes, {}, 0, overflow_checks)
    IN  IF u.kind # "ok" THEN [kind |-> u.kind, v |-> {}, ret |-> {}]
        ELSE [kind |-> "ok", v |-> u.value, ret |-> zigzag(u.value, width)]

read_varint_i32(bytes, overflow_checks) == read_varint_signed(32, bytes, overflow_checks)

read_varint_i64(bytes, overflow_checks) == read_varint_signed(64, bytes, overflow_checks)

\* history: one signed read
VarintLog(width, out) == [width |-> width, kind |-> out.kind, v |-> out.v, ret |-> out.ret]

NoVarint == [width |-> 0, kind |-> "", v |-> {}, ret |-> {}]

\* one call of read_varint_i32 or read_varint_i64
ReadVarintSigned(width, bytes, overflow_checks) ==
    /\ varint_log' = [prev |-> varint_log.cur,
                      cur |-> VarintLog(width, IF width = 32
                                               THEN read_varint_i32(bytes, overflow_checks)
                                               ELSE read_varint_i64(bytes, overflow_checks))]
    /\ UNCHANGED <<quantized, quant_log, trees, huff_n, huff_log, huff_reader, constructed, send_tables_log,
                   callVars>>
    /\ UNCHANGED <<listVars, fpVars, parserVars, frameVars, decVars>>

----------------------------------------------------------------------------
(* entity/decoder.rs: the quantized float decoder *)

\* An f32 is carried as its kind ("num", "zero", "inf", "nan"), its sign s
\* (1 for negative) and, for a normal number, a mantissa m of 24 bits
\* (2^23 <= m < 2^24) and an exponent e: the number is (-1)^s * m * 2^e.
\* Every operation rounds to nearest, ties to even, as the f32 operations of
\* the machine do.  Subnormal numbers and the sign of zero are left out: no
\* value of the model comes near them.
F32(k, s, m, e) == [k |-> k, s |-> s, m |-> m, e |-> e]

F32Zero == F32("zero", 0, 0, 0)

F32NaN == F32("nan", 0, 0, 0)

F32Inf(s) == F32("inf", s, 0, 0)

\* the number of bits of n, for 0 <= n < 2^31
RECURSIVE BitLen(_)
BitLen(n) == IF n = 0 THEN 0 ELSE 1 + BitLen(n \div 2)

\* the f32 nearest to (-1)^s * (n + f) * 2^e, where 0 <= n < 2^31 and f, a
\* fraction in [0, 1), is non-zero iff `sticky`: ties go to the even mantissa
Round(s, n, e, sticky) ==
    IF n = 0 THEN F32Zero
    ELSE LET len == BitLen(n)
         IN  IF len <= 24 THEN F32("num", s, n * Pow2(24 - len), e - (24 - len))
             ELSE LET sh == len - 24
                      q == n \div Pow2(sh)
                      r == n % Pow2(sh)
                      half == Pow2(sh - 1)
                      up == \/ r > half
                            \/ r = half /\ (sticky \/ q % 2 = 1)
                      m == IF up THEN q + 1 ELSE q
                  IN  IF m = Pow2(24) THEN F32("num", s, Pow2(23), e + sh + 1)
                      ELSE F32("num", s, m, e + sh)

\* n as f32, for 0 <= n < 2^31
u32_as_f32(n) == Round(0, n, 0, FALSE)

\* a small number with a sign and a power of two: n * 2^e
Dyadic(n, e) == Round(IF n < 0 THEN 1 ELSE 0, IF n < 0 THEN 0 - n ELSE n, e, FALSE)

f32_neg(x) == IF x.k \in {"num", "inf"} THEN [x EXCEPT !.s = 1 - x.s] ELSE x

f32_abs(x) == IF x.k \in {"num", "inf"} THEN [x EXCEPT !.s = 0] ELSE x

\* |x| < |y| for two normal numbers
MagLess(x, y) == x.e < y.e \/ (x.e = y.e /\ x.m < y.m)

\* x < y; every comparison with a NaN is false
f32_lt(x, y) ==
    IF x.k = "nan" \/ y.k = "nan" THEN FALSE
    ELSE LET rank(v) == IF v.k = "zero" THEN 0 ELSE IF v.s = 1 THEN -1 ELSE 1
         IN  IF rank(x) # rank(y) THEN rank(x) < rank(y)
             ELSE IF rank(x) = 0 THEN FALSE
             ELSE IF x.k = "inf" \/ y.k = "inf"
             THEN (rank(x) = 1 /\ x.k = "num" /\ y.k = "inf")
                  \/ (rank(x) = -1 /\ x.k = "inf" /\ y.k = "num")
             ELSE IF rank(x) = 1 THEN MagLess(x, y) ELSE MagLess(y, x)

f32_gt(x, y) == f32_lt(y, x)

\* x == y; a NaN equals nothing
f32_eq(x, y) == x.k # "nan" /\ y.k # "nan" /\ x = y

f32_le(x, y) == f32_lt(x, y) \/ f32_eq(x, y)

\* |x| + |y| or |x| - |y| for two normal numbers with |x| >= |y|, with the
\* sign s: both mantissas get three guard bits, the smaller one is shifted
\* down and what falls off is remembered in the sticky bit
AddMag(s, x, y, subtract) ==
    LET d == x.e - y.e
        a == x.m * 8
        b == IF d > 27 THEN 0 ELSE (y.m * 8) \div Pow2(d)
        lost == IF d > 27 THEN TRUE ELSE (y.m * 8) % Pow2(d) # 0
    IN  IF subtract
        THEN IF lost THEN Round(s, a - b - 1, x.e - 3, TRUE)
             ELSE Round(s, a - b, x.e - 3, FALSE)
        ELSE Round(s, a + b, x.e - 3, lost)

\* x + y
f32_add(x, y) ==
    IF x.k = "nan" \/ y.k = "nan" THEN F32NaN
    ELSE IF x.k = "inf"
    THEN IF y.k = "inf" /\ y.s # x.s THEN F32NaN ELSE x
    ELSE IF y.k = "inf" THEN y
    ELSE IF x.k = "zero" THEN y
    ELSE IF y.k = "zero" THEN x
    ELSE LET big == IF MagLess(x, y) THEN y ELSE x
             small == IF MagLess(x, y) THEN x ELSE y
         IN  AddMag(big.s, big, small, x.s # y.s)

\* x - y
f32_sub(x, y) == f32_add(x, f32_neg(y))

\* x * y: the 48-bit product of the mantissas is formed in limbs of 12 bits
f32_mul(x, y) ==
    IF x.k = "nan" \/ y.k = "nan" THEN F32NaN
    ELSE IF x.k = "inf" \/ y.k = "inf"
    THEN IF x.k = "zero" \/ y.k = "zero" THEN F32NaN
         ELSE F32Inf(IF x.s = y.s THEN 0 ELSE 1)
    ELSE IF x.k = "zero" \/ y.k = "zero" THEN F32Zero
    ELSE LET a1 == x.m \div 4096
             a0 == x.m % 4096
             b1 == y.m \div 4096
             b0 == y.m % 4096
             p0 == a0 * b0
             t1 == a1 * b0 + a0 * b1 + p0 \div 4096
             t2 == a1 * b1 + t1 \div 4096
             l0 == p0 % 4096
             l1 == t1 % 4096
         IN  Round(IF x.s = y.s THEN 0 ELSE 1, t2 * 16 + l1 \div 256,
                   x.e + y.e + 20, l1 % 256 # 0 \/ l0 # 0)

\* long division: n more bits of the quotient q of the remainder r by d
RECURSIVE DivBits(_, _, _, _)
DivBits(r, d, n, q) ==
    IF n = 0 THEN <<q, r>>
    ELSE IF 2 * r >= d THEN DivBits(2 * r - d, d, n - 1, 2 * q + 1)
    ELSE DivBits(2 * r, d, n - 1, 2 * q)

\* x / y
f32_div(x, y) ==
    IF x.k = "nan" \/ y.k = "nan" THEN F32NaN
    ELSE IF x.k = "inf"
    THEN IF y.k = "inf" THEN F32NaN ELSE F32Inf(IF x.s = y.s THEN 0 ELSE 1)
    ELSE IF y.k = "inf" THEN F32Zero
    ELSE IF y.k = "zero"
    THEN IF x.k = "zero" THEN F32NaN ELSE F32Inf(x.s)
    ELSE IF x.k = "zero" THEN F32Zero
    ELSE LET qr == DivBits(x.m % y.m, y.m, 26, x.m \div y.m)
         IN  Round(IF x.s = y.s THEN 0 ELSE 1, qr[1], x.e - y.e - 26, qr[2] # 0)

\* x as u32: towards zero, a NaN or a negative number gives 0, a number of
\* 2^31 or more is carried as UsizeHigh
f32_as_u32(x) ==
    IF x.k \in {"nan", "zero"} \/ x.s = 1 THEN 0
    ELSE IF x.k = "inf" \/ x.e > 7 THEN UsizeHigh
    ELSE IF x.e >= 0 THEN x.m * Pow2(x.e)
    ELSE IF x.e < -24 THEN 0
    ELSE x.m \div Pow2(0 - x.e)

\* x.log2().ceil() as u32 for x >= 1: the logarithm of a mantissa that is not
\* a power of two lies strictly between two integers
ceil_log2(x) ==
    IF x.k = "inf" THEN UsizeHigh
    ELSE IF x.k # "num" THEN 0
    ELSE IF x.m = Pow2(23) THEN x.e + 23 ELSE x.e + 24

QFF_ROUNDDOWN == 1

QFF_ROUNDUP == 2

QFF_ENCODE_ZERO == 4

QFF_ENCODE_INTEGERS == 8

\* flags & flag != 0
HasFlag(flags, flag) == BitAnd(flags, flag) # 0

\* flags &= !mask
ClearFlags(flags, mask) == flags - BitAnd(flags, mask)

F32One == u32_as_f32(1)

\* 1u32 << n: a shift of 32 or more is taken modulo 32 in a build without
\* overflow checks (a build with them panics before the value is used)
Shl32(n) == Pow2(n % 32)

\* Q_FLOAT_MULTIPLIERS: the f32 nearest to 0.9999, 0.99, 0.9, 0.8 and 0.7
Q_FLOAT_MULTIPLIERS ==
    <<F32("num", 0, 16775538, -24), F32("num", 0, 16609444, -24),
      F32("num", 0, 15099494, -24), F32("num", 0, 13421773, -24),
      F32("num", 0, 11744051, -24)>>

\* `high as f32` in assign_multipliers: 0xFFFFFFFE, which rounds to 2^32, for
\* 32 bits, else (1u32 << bits) - 1
HighAsF32(bits) ==
    IF bits = 32 THEN F32("num", 0, Pow2(23), 9) ELSE u32_as_f32(Shl32(bits) - 1)

\* high_mul * range > high as f32 || (high_mul * range) as f64 > high as f64:
\* `high` is an f32 up to 24 bits; above, `high as f32` is the next power of
\* two and the f64 comparison also holds for a product equal to it
TooHigh(high_mul, range, bits) ==
    LET p == f32_mul(high_mul, range)
    IN  f32_gt(p, HighAsF32(bits)) \/ (bits > 24 /\ f32_eq(p, HighAsF32(bits)))

\* the loop over Q_FLOAT_MULTIPLIERS: the first multiplier that fits, or the
\* last one when none does
RECURSIVE TryMultipliers(_, _, _)
TryMultipliers(i, range, bits) ==
    LET high_mul == f32_mul(f32_div(HighAsF32(bits), range), Q_FLOAT_MULTIPLIERS[i])
    IN  IF TooHigh(high_mul, range, bits) /\ i < Len(Q_FLOAT_MULTIPLIERS)
        THEN TryMultipliers(i + 1, range, bits)
        ELSE high_mul

assign_multipliers(s, steps) ==
    LET range == f32_sub(s.high, s.low)
        first == IF f32_le(f32_abs(range), F32Zero) THEN HighAsF32(s.bits)
                 ELSE f32_div(HighAsF32(s.bits), range)
        high_mul == IF TooHigh(first, range, s.bits)
                    THEN TryMultipliers(1, range, s.bits) ELSE first
        t == [s EXCEPT !.high_low_mul = high_mul,
                       !.dec_mul = f32_div(F32One, f32_sub(u32_as_f32(steps), F32One))]
    IN  IF f32_eq(high_mul, F32Zero)
        THEN [kind |-> "Err", err |-> "Error computing high / low multiplier", s |-> t]
        ELSE [kind |-> "Ok", err |-> "", s |-> t]

quantize(s, value) ==
    IF f32_lt(value, s.low)
    THEN IF ~s.roundup
         THEN [kind |-> "Err", err |-> "Field tried to quantize an out of range value",
               v |-> F32Zero]
         ELSE [kind |-> "Ok", err |-> "", v |-> s.low]
    ELSE IF f32_gt(value, s.high)
    THEN IF ~s.rounddown
         THEN [kind |-> "Err", err |-> "Field tried to quantize an out of range value",
               v |-> F32Zero]
         ELSE [kind |-> "Ok", err |-> "", v |-> s.high]
    ELSE LET i == f32_as_u32(f32_mul(f32_sub(value, s.low), s.high_low_mul))
         IN  [kind |-> "Ok", err |-> "",
              v |-> f32_add(s.low, f32_mul(f32_sub(s.high, s.low),
                                           f32_mul(u32_as_f32(i), s.dec_mul)))]

\* a mutant of normalize_flags: integer mode clears nothing
normalize_flags_keep(flags, low, high) ==
    LET f1 == IF \/ f32_eq(low, F32Zero) /\ HasFlag(flags, QFF_ROUNDDOWN)
                 \/ f32_eq(high, F32Zero) /\ HasFlag(flags, QFF_ROUNDUP)
              THEN ClearFlags(flags, QFF_ENCODE_ZERO) ELSE flags
        f2 == IF f32_eq(low, F32Zero) /\ HasFlag(f1, QFF_ENCODE_ZERO)
              THEN ClearFlags(BitOr(f1, QFF_ROUNDDOWN), QFF_ENCODE_ZERO) ELSE f1
        f3 == IF f32_eq(high, F32Zero) /\ HasFlag(f2, QFF_ENCODE_ZERO)
              THEN ClearFlags(BitOr(f2, QFF_ROUNDUP), QFF_ENCODE_ZERO) ELSE f2
    IN  IF f32_gt(low, F32Zero) \/ f32_lt(high, F32Zero)
        THEN ClearFlags(f3, QFF_ENCODE_ZERO) ELSE f3

\* the flags of `new` after its first block
normalize_flags(flags, low, high) ==
    LET f1 == IF \/ f32_eq(low, F32Zero) /\ HasFlag(flags, QFF_ROUNDDOWN)
                 \/ f32_eq(high, F32Zero) /\ HasFlag(flags, QFF_ROUNDUP)
              THEN ClearFlags(flags, QFF_ENCODE_ZERO) ELSE flags
        f2 == IF f32_eq(low, F32Zero) /\ HasFlag(f1, QFF_ENCODE_ZERO)
              THEN ClearFlags(BitOr(f1, QFF_ROUNDDOWN), QFF_ENCODE_ZERO) ELSE f1
        f3 == IF f32_eq(high, F32Zero) /\ HasFlag(f2, QFF_ENCODE_ZERO)
              THEN ClearFlags(BitOr(f2, QFF_ROUNDUP), QFF_ENCODE_ZERO) ELSE f2
        f4 == IF f32_gt(low, F32Zero) \/ f32_lt(high, F32Zero)
              THEN ClearFlags(f3, QFF_ENCODE_ZERO) ELSE f3
    IN  IF flags = 0 THEN flags
        ELSE IF HasFlag(f4, QFF_ENCODE_INTEGERS)
        THEN ClearFlags(f4, QFF_ROUNDUP + QFF_ROUNDDOWN + QFF_ENCODE_ZERO)
        ELSE f4

\* while (1u32 << bc) <= range2 { bc += 1 }, range2 being 1 << log
RECURSIVE bit_count(_, _)
bit_count(bc, log) == IF bc <= log THEN bit_count(bc + 1, log) ELSE bc

\* a mutant of drop_flag: the flag is kept
drop_flag_never(flag, q, x) == flag

\* if s.flag && s.quantize(x)? == x { s.flag = false }
drop_flag(flag, q, x) == flag /\ ~f32_eq(q.v, x)

QuantizedErr(kind, err) ==
    [kind |-> kind, err |-> err,
     s |-> [low |-> F32Zero, high |-> F32Zero, high_low_mul |-> F32Zero,
            dec_mul |-> F32Zero, bits |-> 0, rounddown |-> FALSE, roundup |-> FALSE,
            encode_zero |-> FALSE]]

\* F32SerializerQuantized::new, from its last statements back to its first:
\* each stage receives what the statements before it computed

\* the Ok(s) at the end, after the three `?` of the quantize calls
NewResult(a, qd, s1, qu, s2, qz) ==
    IF a.kind # "Ok" THEN QuantizedErr("Err", a.err)
    ELSE IF a.s.rounddown /\ qd.kind # "Ok" THEN QuantizedErr("Err", qd.err)
    ELSE IF s1.roundup /\ qu.kind # "Ok" THEN QuantizedErr("Err", qu.err)
    ELSE IF s2.encode_zero /\ qz.kind # "Ok" THEN QuantizedErr("Err", qz.err)
    ELSE [kind |-> "Ok", err |-> "",
          s |-> [s2 EXCEPT !.encode_zero = drop_flag(s2.encode_zero, qz, F32Zero)]]

\* if s.roundup && s.quantize(s.high)? == s.high { s.roundup = false }
NewRoundup(a, qd, s1, qu) ==
    LET s2 == [s1 EXCEPT !.roundup = drop_flag(s1.roundup, qu, s1.high)]
    IN  NewResult(a, qd, s1, qu, s2, quantize(s2, F32Zero))

\* if s.rounddown && s.quantize(s.low)? == s.low { s.rounddown = false }
NewRounddown(a, qd) ==
    LET s1 == [a.s EXCEPT !.rounddown = drop_flag(a.s.rounddown, qd, a.s.low)]
    IN  NewRoundup(a, qd, s1, quantize(s1, s1.high))

\* s.assign_multipliers(steps)?
NewMultipliers(a) == NewRounddown(a, quantize(a.s, a.s.low))

\* the integer mode: the range is a power of two and the bit count grows to
\* hold it; `log` is delta.log2().ceil()
NewSteps(bits0, flags, low, high1, log, overflow_checks) ==
    LET integers == HasFlag(flags, QFF_ENCODE_INTEGERS)
        range2 == Shl32(log)
        bc == bit_count(bits0, log)
        bits == IF integers /\ bc > bits0 THEN bc ELSE bits0
        steps == Shl32(bits)
        offset == f32_div(u32_as_f32(range2), u32_as_f32(steps))
        high == IF integers THEN f32_sub(f32_add(low, u32_as_f32(range2)), offset)
                ELSE high1
    IN  IF overflow_checks /\ (bits0 >= 32 \/ (integers /\ log >= 32))
        THEN QuantizedErr("panic", "attempt to shift left with overflow")
        ELSE NewMultipliers(
                 assign_multipliers([low |-> low, high |-> high,
                                     high_low_mul |-> F32Zero, dec_mul |-> F32Zero,
                                     bits |-> bits,
                                     rounddown |-> HasFlag(flags, QFF_ROUNDDOWN),
                                     roundup |-> HasFlag(flags, QFF_ROUNDUP),
                                     encode_zero |-> HasFlag(flags, QFF_ENCODE_ZERO)],
                                    steps))

\* delta = high - low, at least 1.0
NewDelta(bits0, flags, low, high1, range, overflow_checks) ==
    NewSteps(bits0, flags, low, high1,
             ceil_log2(IF f32_lt(range, F32One) THEN F32One ELSE range),
             overflow_checks)

\* the bound that a rounding flag moves inwards by one step
NewBounds(bits0, flags, low0, high0, offset, overflow_checks) ==
    LET high1 == IF HasFlag(flags, QFF_ROUNDDOWN) THEN f32_sub(high0, offset) ELSE high0
        low1 == IF ~HasFlag(flags, QFF_ROUNDDOWN) /\ HasFlag(flags, QFF_ROUNDUP)
                THEN f32_add(low0, offset) ELSE low0
    IN  NewDelta(bits0, flags, low1, high1, f32_sub(high1, low1), overflow_checks)

\* the flags after the first block, and the error for both rounding flags
NewFlags(bits0, flags, low0, high0, overflow_checks) ==
    IF HasFlag(flags, QFF_ROUNDDOWN) /\ HasFlag(flags, QFF_ROUNDUP)
    THEN QuantizedErr("Err", "Roundup / Rounddown are mutually exclusive")
    ELSE NewBounds(bits0, flags, low0, high0,
                   f32_div(f32_sub(high0, low0), u32_as_f32(Shl32(bits0))),
                   overflow_checks)

F32SerializerQuantized_new(bits0, flags0, low0, high0, overflow_checks) ==
    NewFlags(bits0, normalize_flags(flags0, low0, high0), low0, high0, overflow_checks)

\* reader.read_var::<u64>(bits): little endian, the first bit is the lowest
RECURSIVE read_var(_, _)
read_var(reader, bits) ==
    IF bits = 0 THEN 0 ELSE Head(reader) + 2 * read_var(Tail(reader), bits - 1)

\* the sentinel bits of decode_typed: the flags that are set are tried in
\* order and each reads one bit, until a bit is 1
RECURSIVE read_sentinel(_, _)
read_sentinel(flags, reader) ==
    IF flags = <<>> THEN [kind |-> "none", which |-> "", rest |-> reader]
    ELSE IF ~Head(flags)[2] THEN read_sentinel(Tail(flags), reader)
    ELSE IF reader = <<>> THEN [kind |-> "Err", which |-> "", rest |-> reader]
    ELSE IF Head(reader) = 1
    THEN [kind |-> "hit", which |-> Head(flags)[1], rest |-> Tail(reader)]
    ELSE read_sentinel(Tail(flags), Tail(reader))

\* F32SerializerQuantized::decode_typed, with a target or with none
QuantizedDecode(s, entity, reader) ==
    LET sen == read_sentinel(<<<<"low", s.rounddown>>, <<"high", s.roundup>>,
                               <<"zero", s.encode_zero>>>>, reader)
        v == u32_as_f32(read_var(sen.rest, s.bits))
        value == f32_add(s.low, f32_mul(f32_mul(f32_sub(s.high, s.low), v), s.dec_mul))
    IN  IF sen.kind = "Err" \/ (sen.kind = "none" /\ Len(sen.rest) < s.bits)
        THEN [ret |-> "Err", entity |-> entity, reader |-> <<>>, sentinel |-> ""]
        ELSE IF sen.kind = "hit"
        THEN [ret |-> "Ok", reader |-> sen.rest, sentinel |-> sen.which,
              entity |-> IF entity = None THEN None
                         ELSE Some(CASE sen.which = "low" -> s.low
                                     [] sen.which = "high" -> s.high
                                     [] OTHER -> F32Zero)]
        ELSE [ret |-> "Ok", sentinel |-> "",
              reader |-> SubSeq(sen.rest, s.bits + 1, Len(sen.rest)),
              entity |-> IF entity = None THEN None ELSE Some(value)]

\* history: no decoder was constructed yet
NoQuantized == [args |-> <<>>, out |-> QuantizedErr("none", "")]

NoQuantLog == [target |-> FALSE, reader |-> <<>>, calls |-> 0,
               out |-> [ret |-> "", entity |-> None, reader |-> <<>>, sentinel |-> ""]]

\* one call of F32SerializerQuantized::new
QuantizedNew(bits, flags, low, high, overflow_checks) ==
    /\ quantized' = [args |-> <<bits, flags, low, high>>,
                     out |-> F32SerializerQuantized_new(bits, flags, low, high,
                                                        overflow_checks)]
    /\ quant_log' = NoQuantLog
    /\ UNCHANGED <<varint_log, trees, huff_n, huff_log, huff_reader, constructed, send_tables_log,
                   callVars>>
    /\ UNCHANGED <<listVars, fpVars, parserVars, frameVars, decVars>>

\* one call of decode_typed on the decoder constructed last, into an f32 that
\* holds 0.0 or with no target
QuantizedDecodeStep(target, reader) ==
    /\ quantized.out.kind = "Ok"
    /\ quant_log' = [target |-> target, reader |-> reader, calls |-> quant_log.calls + 1,
                     out |-> QuantizedDecode(quantized.out.s,
                                             IF target THEN Some(F32Zero) ELSE None,
                                             reader)]
    /\ UNCHANGED <<quantized, varint_log, trees, huff_n, huff_log, huff_reader, constructed, send_tables_log,
                   callVars>>
    /\ UNCHANGED <<listVars, fpVars, parserVars, frameVars, decVars>>

----------------------------------------------------------------------------
(* entity/fieldpath.rs: the Huffman tree of the opcodes and the walk through it *)

\* FIELD_PATH_OPS[i].weight, in the order of the table
FieldPathWeights ==
    <<36271, 10334, 1375, 646, 4128, 35, 3, 521, 2942, 560, 471, 10530, 251,
      0, 0, 0, 0, 0, 0, 0, 0, 0, 0, 0, 0, 0, 310, 2, 0, 1837, 149, 300, 634,
      0, 0, 1, 76, 271, 99, 25474>>

\* HuffmanNode: `op` is Some(index into FIELD_PATH_OPS) for a leaf
HuffmanNode(weight, value, op, left, right) ==
    [weight |-> weight, value |-> value, op |-> op, left |-> left, right |-> right]

\* Ord::cmp for two integers
IntCmp(a, b) == IF a < b THEN "Less" ELSE IF a = b THEN "Equal" ELSE "Greater"

\* a mutant of HuffmanCmp: among equal weights the smaller value is greater
HuffmanCmp_value_asc(a, b) ==
    IF a.weight = b.weight THEN IntCmp(b.value, a.value) ELSE IntCmp(b.weight, a.weight)

\* impl Ord for HuffmanNode
HuffmanCmp(a, b) ==
    IF a.weight = b.weight THEN IntCmp(a.value, b.value) ELSE IntCmp(b.weight, a.weight)

\* BinaryHeap::pop: the greatest node of the heap.  No two nodes of the heap
\* compare Equal (their values differ), so the heap is carried as a set.
heap_pop(heap) == CHOOSE x \in heap : \A y \in heap : HuffmanCmp(x, y) # "Less"

\* a faulty heap of leaves: the opcodes of weight zero get no leaf
HuffmanLeaves_weighted ==
    {HuffmanNode(FieldPathWeights[i], i - 1, Some(i - 1), None, None) :
        i \in {j \in 1 .. Len(FieldPathWeights) : FieldPathWeights[j] >= 1}}

\* the heap after the loop that pushes one leaf per opcode
HuffmanLeaves ==
    {HuffmanNode(IF FieldPathWeights[i] >= 1 THEN FieldPathWeights[i] ELSE 1,
                 i - 1, Some(i - 1), None, None) : i \in 1 .. Len(FieldPathWeights)}

\* history: the merge made last
NoMerge == [a |-> None, b |-> None, before |-> {}]

\* one turn of `while trees.len() > 1`
HuffmanMerge ==
    /\ Cardinality(trees) > 1
    /\ LET a == heap_pop(trees)
           b == heap_pop(trees \ {a})
       IN  /\ trees' = (trees \ {a, b})
                          \cup {HuffmanNode(a.weight + b.weight, huff_n, None,
                                            Some(a), Some(b))}
           /\ huff_n' = huff_n + 1
           /\ huff_log' = [a |-> Some([weight |-> a.weight, value |-> a.value]),
                           b |-> Some([weight |-> b.weight, value |-> b.value]),
                           before |-> {[weight |-> x.weight, value |-> x.value] :
                                          x \in trees}]
    /\ UNCHANGED <<huff_reader, varint_log, quantized, quant_log, constructed, send_tables_log,
                   callVars>>
    /\ UNCHANGED <<listVars, fpVars, parserVars, frameVars, decVars>>

\* FIELD_PATH_HUFFMAN, once the loop has ended: trees.pop().unwrap()
FIELD_PATH_HUFFMAN == heap_pop(trees)

\* reader.read_unsigned::<k, u32>(): little endian; the end of the stream is
\* an error
read_unsigned(k, reader) ==
    IF Len(reader) < k THEN [ok |-> FALSE, v |-> 0, rest |-> <<>>]
    ELSE [ok |-> TRUE, v |-> read_var(reader, k), rest |-> SubSeq(reader, k + 1, Len(reader))]

\* read_ubit_int_fp: up to four prefix bits tell the width of the value
RECURSIVE read_ubit_int_fp_from(_, _)
read_ubit_int_fp_from(widths, reader) ==
    IF Len(widths) = 1 THEN read_unsigned(Head(widths), reader)
    ELSE IF reader = <<>> THEN [ok |-> FALSE, v |-> 0, rest |-> <<>>]
    ELSE IF Head(reader) = 1 THEN read_unsigned(Head(widths), Tail(reader))
    ELSE read_ubit_int_fp_from(Tail(widths), Tail(reader))

read_ubit_int_fp(reader) == read_ubit_int_fp_from(<<2, 4, 10, 17, 31>>, reader)

\* read_ubit_int: six bits, of which bits 4 and 5 tell how many more follow
read_ubit_int(reader) ==
    LET ret == read_unsigned(6, reader)
        more == CASE (ret.v \div 16) % 4 = 1 -> 4
                  [] (ret.v \div 16) % 4 = 2 -> 8
                  [] (ret.v \div 16) % 4 = 3 -> 28
                  [] OTHER -> 0
        ext == read_unsigned(more, ret.rest)
    IN  IF ~ret.ok THEN ret
        ELSE IF more = 0 THEN ret
        ELSE IF ~ext.ok THEN ext
        ELSE [ok |-> TRUE, v |-> (ret.v % 16) + 16 * ext.v, rest |-> ext.rest]

\* the reads an opcode makes, in order: "fp" for read_ubit_int_fp, "ubit" for
\* read_ubit_int, "bits" with k for read_unsigned::<k, u32>; the operand each
\* read fills: a, b, c in order, n a count
OperandReads(op) ==
    CASE op \in {0, 1, 2, 3, 5, 7, 27, 29, 37, 39} -> <<>>
      [] op \in {4, 6, 8, 9, 28, 30} -> <<<<"a", "fp", 0>>>>
      [] op \in {10, 13, 17} -> <<<<"a", "fp", 0>>, <<"b", "fp", 0>>>>
      [] op = 11 -> <<<<"a", "bits", 3>>, <<"b", "bits", 3>>>>
      [] op = 12 -> <<<<"a", "bits", 4>>, <<"b", "bits", 4>>>>
      [] op \in {14, 18} -> <<<<"a", "bits", 5>>, <<"b", "bits", 5>>>>
      [] op \in {15, 19} -> <<<<"a", "fp", 0>>, <<"b", "fp", 0>>, <<"c", "fp", 0>>>>
      [] op \in {16, 20} -> <<<<"a", "bits", 5>>, <<"b", "bits", 5>>, <<"c", "bits", 5>>>>
      [] op = 21 -> <<<<"n", "ubit", 0>>, <<"a", "fp", 0>>, <<"b", "fp", 0>>>>
      [] op = 22 -> <<<<"n", "ubit", 0>>, <<"a", "bits", 5>>, <<"b", "bits", 5>>>>
      [] op = 23 -> <<<<"n", "ubit", 0>>, <<"a", "fp", 0>>, <<"b", "fp", 0>>, <<"c", "fp", 0>>>>
      [] op = 24 -> <<<<"n", "ubit", 0>>, <<"a", "bits", 5>>, <<"b", "bits", 5>>, <<"c", "bits", 5>>>>
      [] op = 31 -> <<<<"a", "bits", 3>>>>
      [] op = 32 -> <<<<"a", "bits", 6>>>>
      [] op = 33 -> <<<<"n", "fp", 0>>>>

\* the opcodes that read their operands in a loop over the levels or as a
\* varint: FpDecodeOp gives them their operands, the walk below does not
LoopOps == {25, 26, 34, 35, 36, 38}

\* the operands of an opcode read from the stream
RECURSIVE read_operands(_, _, _)
read_operands(reads, o, reader) ==
    IF reads = <<>> THEN [ok |-> TRUE, o |-> o, rest |-> reader]
    ELSE LET kind == Head(reads)[2]
             r == IF kind = "fp" THEN read_ubit_int_fp(reader)
                  ELSE IF kind = "ubit" THEN read_ubit_int(reader)
                  ELSE read_unsigned(Head(reads)[3], reader)
         IN  IF ~r.ok THEN [ok |-> FALSE, o |-> o, rest |-> <<>>]
             ELSE read_operands(Tail(reads), [o EXCEPT ![Head(reads)[1]] = r.v], r.rest)

\* a mutant of next_node: the bit 1 goes left
next_node_swapped(node, bit) == IF bit = 1 THEN node.left ELSE node.right

\* if reader.read_bit()? { node.right } else { node.left }
next_node(node, bit) == IF bit = 1 THEN node.right ELSE node.left

\* the loop of read_field_paths from `node`, with the path and the output
\* vector so far: how the call ends ("ok", "err", "panic", or "loop" when the
\* walk reaches one of LoopOps), the path and the vector then
RECURSIVE read_field_paths(_, _, _, _, _)
read_field_paths(start_node, node, p, out, reader) ==
    IF p.is_done THEN [pc |-> "ok", p |-> p, paths |-> out, ops |-> <<>>, err |-> ""]
    ELSE IF reader = <<>>
    THEN [pc |-> "err", p |-> p, paths |-> out, ops |-> <<>>,
          err |-> "unexpected end of file"]
    ELSE LET next == next_node(node, Head(reader))
         IN  IF next = None
             THEN [pc |-> "err", p |-> p, paths |-> out, ops |-> <<>>,
                   err |-> "Invalid field path huffman tree"]
             ELSE IF next[1].op = None
             THEN read_field_paths(start_node, next[1], p, out, Tail(reader))
             ELSE IF next[1].op[1] \in LoopOps
             THEN [pc |-> "loop", p |-> p, paths |-> out, ops |-> <<>>, err |-> ""]
             ELSE LET op == next[1].op[1]
                      rd == read_operands(OperandReads(op),
                                          [a |-> 0, b |-> 0, c |-> 0, n |-> 0, pat |-> "none"],
                                          Tail(reader))
                      r == RunOp(p, out, op, rd.o)
                      more == read_field_paths(start_node, start_node, r.p, r.paths, rd.rest)
                  IN  IF ~rd.ok
                      THEN [pc |-> "err", p |-> p, paths |-> out, ops |-> <<>>,
                            err |-> "unexpected end of file"]
                      ELSE IF r.status = "panic"
                      THEN [pc |-> "panic", p |-> r.p, paths |-> r.paths, ops |-> <<op>>,
                            err |-> ""]
                      ELSE [more EXCEPT !.ops = <<op>> \o @]

\* one call of read_field_paths on an empty vector, once the tree is built
HuffmanRead(reader) ==
    /\ Cardinality(trees) = 1
    /\ fp_pc = "run"
    /\ \E r \in {read_field_paths(FIELD_PATH_HUFFMAN, FIELD_PATH_HUFFMAN,
                                  DEFAULT_FIELD_PATH, paths, reader)} :
          /\ r.pc # "loop"
          /\ fp_pc' = r.pc
          /\ fp_path' = r.p
          /\ paths' = r.paths
          /\ huff_reader' = [bits |-> reader, ops |-> r.ops, err |-> r.err]
    /\ UNCHANGED <<fp_trace, trees, huff_n, huff_log, varint_log, quantized, quant_log, constructed, send_tables_log,
                   callVars>>
    /\ UNCHANGED <<listVars, parserVars, frameVars, decVars>>

(* lib.rs: the constructor of the parser *)

\* b"PBDEMS2\0"
DemoMagic == <<80, 66, 68, 69, 77, 83, 50, 0>>

\* the size of the header read by the constructor: the stamp, the offset and
\* four bytes of padding
HeaderLen == 16

\* a mutant of magic_matches: the terminating zero is not compared
magic_matches_cstr(magic) == SubSeq(magic, 1, 7) = SubSeq(DemoMagic, 1, 7)

\* &magic[0..8] != b"PBDEMS2\0", negated
magic_matches(magic) == SubSeq(magic, 1, 8) = DemoMagic

\* the fields of the CsDemoParser that the constructor returns; the reader
\* is left after the header
NewParser(rest) ==
    [reader |-> rest, tick |-> 0, map_name |-> "", network_protocol |-> 0,
     class_info |-> <<>>, class_id_size |-> 0, entity_serializers |-> <<>>,
     string_tables |-> <<>>, instance_baseline |-> None]

\* CsDemoParser::new_pre_registered on a reader holding `input`: read_exact
\* fails on fewer than 16 bytes
new_pre_registered(input) ==
    IF Len(input) < HeaderLen
    THEN [ret |-> "Err", err |-> "failed to fill whole buffer", parser |-> None]
    ELSE IF ~magic_matches(SubSeq(input, 1, HeaderLen))
    THEN [ret |-> "Err", err |-> "Invalid CS2 demo magic", parser |-> None]
    ELSE [ret |-> "Ok", err |-> "",
          parser |-> Some(NewParser(SubSeq(input, HeaderLen + 1, Len(input))))]

NotCreated == [called |-> FALSE, input |-> <<>>, out |-> [ret |-> "", err |-> "", parser |-> None]]

\* one call of CsDemoParser::new
New(input) ==
    /\ ~constructed.called
    /\ constructed' = [called |-> TRUE, input |-> input, out |-> new_pre_registered(input)]
    /\ UNCHANGED <<varint_log, quantized, quant_log, trees, huff_n, huff_log, huff_reader,
                   send_tables_log, callVars>>
    /\ UNCHANGED <<listVars, fpVars, parserVars, frameVars, decVars>>

\* history: nothing was read yet
NoBitsLog ==
    [fn |-> "", reader |-> <<>>, overflow_checks |-> FALSE,
     aligned |-> [kind |-> "", value |-> {}, rest |-> <<>>],
     bits |-> [kind |-> "", value |-> {}, rest |-> <<>>],
     out |-> [kind |-> "", value |-> {}, rest |-> <<>>]]

\* history: the last call of update on a table of its own
NoTableLog ==
    [called |-> FALSE, demo |-> <<>>, entries |-> 0, data |-> <<>>,
     before |-> NewStringTable,
     read |-> <<>>, steps |-> <<>>, ret |-> "", rest |-> <<>>]

\* history: the listener calls of the last read_frame, in the order they were
\* made, with the tick of the state each was given
NoDispatchLog ==
    [called |-> FALSE, tick_before |-> 0, tick |-> 0, cmd |-> 0, calls |-> <<>>,
     ret |-> "", err |-> ""]

\* history: the running index of handle_packet_entities over the entries of
\* a message read so far, and how the last entry ended
NoIndexLog ==
    [idx |-> -1, entries |-> 0, seen |-> <<>>, overflow_checks |-> FALSE, ret |-> "",
     err |-> ""]

\* history: no field was decoded yet
NoSkipLog ==
    [called |-> FALSE, kind |-> "", path |-> <<>>, reader |-> <<>>,
     overflow_checks |-> FALSE, has_entity |-> FALSE,
     target |-> [kind |-> "", err |-> "", v |-> <<>>, rest |-> <<>>],
     skip |-> [kind |-> "", err |-> "", v |-> <<>>, rest |-> <<>>]]

UnitStart ==
    /\ varint_log = [prev |-> NoVarint, cur |-> NoVarint]
    /\ quantized = NoQuantized
    /\ quant_log = NoQuantLog
    /\ trees = HuffmanLeaves
    /\ huff_n = 40
    /\ huff_log = NoMerge
    /\ huff_reader = [bits |-> <<>>, ops |-> <<>>, err |-> ""]
    /\ constructed = NotCreated
    /\ send_tables_log = None
    /\ skip_log = NoSkipLog
    /\ index_log = NoIndexLog
    /\ dispatch_log = NoDispatchLog
    /\ event_manager = EmptyFn
    /\ own_table = None
    /\ bits_log = NoBitsLog
    /\ table_log = NoTableLog

----------------------------------------------------------------------------
(* EntityList driven by arbitrary insert / delete / get / handle calls *)

\* the indices the calls use: both ends of chunk 0, chunk 1, the last index a
\* 14-bit handle can name, the first it cannot, and the first the list refuses
ListIndices == {0, 1, 512, 16383, 16384, 32768}

ListSerials == {1, 2}

ListItems == {"p"}

ListStart ==
    /\ entity_chunk = NewEntityList
    /\ shadow = EmptyFn
    /\ list_ret = [op |-> "new", idx |-> 0, out |-> None]

ListInit == ListStart /\ FpInit /\ ParserStart /\ DecStart /\ UnitStart

\* the caller stores the slot's own index in the entity (entity.rs:290-301)
ListInsert(idx, serial, item) ==
    LET e == EntityItem(idx, serial, item, "A")
        r == insert(entity_chunk, idx, e)
    IN  /\ entity_chunk' = r.list
        /\ shadow' = IF idx < MAX_ENTITY_LISTS * MAX_ENTITIES_IN_LIST
                     THEN Put(shadow, idx, e) ELSE shadow
        /\ list_ret' = [op |-> "insert", idx |-> idx, out |-> r.ret]
        /\ UNCHANGED <<fpVars, parserVars, frameVars, decVars, unitVars>>

ListDelete(idx) ==
    LET r == delete(entity_chunk, idx)
    IN  /\ entity_chunk' = r.list
        /\ shadow' = Drop(shadow, idx)
        /\ list_ret' = [op |-> "delete", idx |-> idx, out |-> r.ret]
        /\ UNCHANGED <<fpVars, parserVars, frameVars, decVars, unitVars>>

ListGet(idx) ==
    /\ list_ret' = [op |-> "get", idx |-> idx, out |-> get(entity_chunk, idx)]
    /\ UNCHANGED <<entity_chunk, shadow>>
    /\ UNCHANGED <<fpVars, parserVars, frameVars, decVars, unitVars>>

ListByHandle(serial, idx) ==
    LET handle == BitOr(serial * Pow2(MAX_EDICT_BITS), idx)
    IN  /\ list_ret' = [op |-> "by_handle", idx |-> handle,
                        out |-> get_entity_by_handle(entity_chunk, handle)]
        /\ UNCHANGED <<entity_chunk, shadow>>
        /\ UNCHANGED <<fpVars, parserVars, frameVars, decVars, unitVars>>
    /\ UNCHANGED <<fpVars, parserVars, frameVars, decVars, unitVars>>

ListNext ==
    \/ \E idx \in ListIndices, serial \in ListSerials, item \in ListItems :
            ListInsert(idx, serial, item)
    \/ \E idx \in ListIndices : ListDelete(idx)
    \/ \E idx \in ListIndices : ListGet(idx)
    \/ \E idx \in ListIndices, serial \in ListSerials : ListByHandle(serial, idx)

SpecList == ListInit /\ [][ListNext]_vars

\* what `get` must return according to the history of inserts and deletes
Expected(i) == IF i \in DOMAIN shadow THEN Some(shadow[i]) ELSE None

\* C1: for indices in [0, 32768), get(i) is the entity most recently inserted
\* at i unless a delete(i) followed it, and nothing otherwise; as the history
\* of index i changes only by calls on i, no call on i changes get(j), j # i.
\* A get call returns just that.
C1_GetIsLastInserted ==
    /\ \A i \in {j \in ListIndices : j < MAX_ENTITY_LISTS * MAX_ENTITIES_IN_LIST} :
            get(entity_chunk, i) = Expected(i)
    /\ list_ret.op = "get" /\ list_ret.idx < MAX_ENTITY_LISTS * MAX_ENTITIES_IN_LIST
            => list_ret.out = Expected(list_ret.idx)

\* C1 witness: an index was deleted (the delete returned its entity) while a
\* second index of the same chunk and one of another chunk stay live, one of
\* them after a replacing insert.
C1_Witness ==
    /\ list_ret.op = "delete" /\ list_ret.idx = 0 /\ list_ret.out # None
    /\ get(entity_chunk, 0) = None
    /\ get(entity_chunk, 1) # None /\ get(entity_chunk, 1)[1].serial = 2
    /\ get(entity_chunk, 512) # None

\* the handle of a live entity finds its payload, a stale serial finds nothing
HandleLaw(e) ==
    /\ get_entity_by_handle(entity_chunk, get_handle(e)) = Some(e.item)
    /\ \A s \in (ListSerials \cup {3}) \ {e.serial} :
            get_entity_by_handle(entity_chunk,
                BitOr(s * Pow2(MAX_EDICT_BITS), e.index)) = None

\* C2: for every live entity at any index the list accepts, the handle
\* (serial << 14) | index returns the payload stored at that index, and the
\* same index with another serial returns nothing.
C2_HandleLaw == \A e \in iter(entity_chunk) : HandleLaw(e)

\* C3: a chunk is allocated iff one of its slots is occupied, and its counter
\* is the number of occupied slots.
C3_ChunkCounter ==
    \A c \in DOMAIN entity_chunk :
        /\ entity_chunk[c].counter = Cardinality(DOMAIN entity_chunk[c].entities)
        /\ entity_chunk[c].counter >= 1

\* C3 witness: chunk 0 holds two entities after a replacing insert, and a
\* chunk that was allocated has been released by the delete of its last slot.
C3_Witness ==
    /\ 0 \in DOMAIN entity_chunk /\ entity_chunk[0].counter = 2
    /\ entity_chunk[0].entities[1].serial = 2
    /\ list_ret.op = "delete" /\ list_ret.out # None
    /\ (list_ret.idx \div MAX_ENTITIES_IN_LIST) \notin DOMAIN entity_chunk

----------------------------------------------------------------------------
(* one call of read_field_paths on an empty output vector *)

FieldPathInit == FpInit /\ ListStart /\ ParserStart /\ DecStart /\ UnitStart

FieldPathNext ==
    \/ \E op \in 0 .. 39 : \E o \in Operands(op) : FpDecodeOp(op, o)
    \/ FpReadError

SpecFieldPath == FieldPathInit /\ [][FieldPathNext]_vars

\* C5: whatever the stream, the cursor `last` stays in [0, 6] and every
\* recorded snapshot has length last + 1.
C5_LastInRange ==
    /\ fp_path.last \in 0 .. (FieldPathSlots - 1)
    /\ \A k \in 1 .. Len(paths) :
            k <= Len(fp_trace) => Len(to_slice(paths[k])) = fp_trace[k].last + 1

\* C6: every index of every recorded snapshot is >= 0 (the u32 words of a
\* snapshot are carried as the i32 with the same bits).
C6_NonNegative ==
    \A k \in 1 .. Len(paths) :
        \A i \in 1 .. Len(to_slice(paths[k])) : to_slice(paths[k])[i] >= 0

\* C7: the vector holds exactly one snapshot per opcode decoded before the
\* terminator, in decode order, each the path as that opcode left it (the
\* path is carried from one opcode to the next); the call returns as soon as
\* the terminator is decoded, which appends nothing, and then reads no more.
C7_SnapshotPerOpcode ==
    /\ Len(paths) = Len(fp_trace)
    /\ \A k \in 1 .. Len(paths) :
            k <= Len(fp_trace) =>
                to_slice(paths[k]) = SubSeq(fp_trace[k].path, 1, fp_trace[k].last + 1)
    /\ fp_pc = "run" /\ fp_trace # <<>> =>
            fp_trace[Len(fp_trace)] = [path |-> fp_path.path, last |-> fp_path.last]
    /\ fp_pc = "ok" <=> fp_path.is_done
    /\ fp_pc = "ok" => ~ENABLED FieldPathNext

\* C7 witness: PlusOne, then PushOneLeftDeltaOneRightNonZero reading 3, then
\* the terminator: two snapshots, the second built on the first.
C7_Witness ==
    /\ fp_pc = "ok"
    /\ Len(paths) = 2
    /\ to_slice(paths[1]) = <<0>>
    /\ to_slice(paths[2]) = <<1, 3>>

----------------------------------------------------------------------------
(* Packet entities against class info and send tables *)

Class(id, name) == [class_id |-> id, network_name |-> name]

\* class 0 is registered by the application, class 1 is not; the second
\* message carries one class without a name
ClassInfoMsgs ==
    {<<Class(Some(0), Some("CA")), Class(Some(1), Some("CU"))>>,
     <<Class(Some(0), None)>>}

FlatSerializer(name, fields_index) == [name |-> name, fields_index |-> fields_index]

\* ProtoFlattenedSerializerFieldT: the symbols of the type, the name and the
\* class serializer of a field, and its polymorphic candidates
FieldPb(var_type, var_name, serializer_name, polymorphic) ==
    [var_type_sym |-> var_type, var_name_sym |-> var_name,
     field_serializer_name_sym |-> serializer_name, polymorphic_types |-> polymorphic]

\* the fields a class has in the send tables
ClassFields == <<"m_iHealth", "m_flSimulationTime">>

\* msg.fields and the fields_index of a class: two fields of a plain type
PlainFields == [i \in DOMAIN ClassFields |-> FieldPb(Some("int32"), Some(ClassFields[i]), None, <<>>)]

ClassIndex == [i \in DOMAIN ClassFields |-> i - 1]

FullSendTables ==
    [data |-> TRUE, fields |-> PlainFields,
     serializers |-> <<FlatSerializer(Some("CA"), ClassIndex),
                       FlatSerializer(Some("CB"), ClassIndex),
                       FlatSerializer(Some("CU"), ClassIndex)>>]

SendTablesMsgs ==
    {FullSendTables,
     [data |-> FALSE, fields |-> <<>>, serializers |-> <<>>],
     [data |-> TRUE, fields |-> <<>>, serializers |-> <<>>],
     [data |-> TRUE, fields |-> PlainFields,
      serializers |-> <<FlatSerializer(Some("CA"), ClassIndex),
                                       FlatSerializer(None, ClassIndex)>>]}

\* the entries of one packet-entities message
MaxEntries == 2

PacketMsgs ==
    {[complete |-> TRUE, updated_entries |-> n, has_pvs |-> p] :
        n \in 0 .. MaxEntries, p \in BOOLEAN}
    \cup {[complete |-> FALSE, updated_entries |-> 0, has_pvs |-> FALSE]}

Field(f, v) == [f |-> f, v |-> v]

\* the field paths of an entry with their values: none, the user field, a
\* field without a getter, a field the class does not have
FieldUpdates == {<<>>, <<Field(0, 5)>>, <<Field(1, 5), Field(Len(ClassFields), 5)>>}

Entry(delta, cmd, class_id, serial, pvs, upd, eof) ==
    [delta |-> delta, cmd |-> cmd, class_id |-> class_id, serial |-> serial,
     pvs |-> pvs, upd |-> upd, eof |-> eof, has_pvs |-> FALSE]

\* the index deltas read by read_ubit_int: to the last index a 14-bit handle
\* can name, and to the last index the list can hold
Deltas == {16383, 32767}

EntryInputs(deltas, serials, upds) ==
    {Entry(d, cmd, 0, 0, 0, <<>>, "none") : d \in deltas, cmd \in {1, 3}}
    \cup {Entry(d, 2, c, s, 0, u, "none") :
            d \in deltas, c \in {0, 1}, s \in serials, u \in upds}
    \cup {Entry(d, 0, 0, 0, p, u, "none") : d \in deltas, p \in 0 .. 3, u \in upds}
    \cup {Entry(d, 2, 0, 1, 0, <<>>, e) : d \in deltas, e \in {"head", "fields"}}

PacketInit == ParserStart /\ ListStart /\ FpInit /\ DecStart /\ UnitStart

PacketNext ==
    \/ \E msg \in ClassInfoMsgs : HandleDemoClassInfo(msg) /\ UNCHANGED frameVars
    \/ \E msg \in SendTablesMsgs : HandleDemoSendTables(msg) /\ UNCHANGED frameVars
    \/ \E msg \in PacketMsgs : HandlePacketEntities(msg) /\ UNCHANGED frameVars
    \/ \E in \in EntryInputs(Deltas, {1}, FieldUpdates) : PacketEntitiesEntry(in) /\ UNCHANGED frameVars
    \/ PacketEntitiesReturn /\ UNCHANGED frameVars

SpecPacket == PacketInit /\ [][PacketNext]_vars

\* C4: after any sequence of packet-entities messages every entity stored in
\* the EntityList has an index below 2^14; a create entry whose running index
\* is 2^14 or more never leaves a stored entity.
C4_IndexBelowEdictLimit ==
    \A e \in iter(entity_chunk) : e.index < Pow2(MAX_EDICT_BITS)

EntryStep == pe.pc = "loop" /\ pe.entry < pe.entries /\ pe' # pe

ClassKnown(class_id) ==
    /\ class_id \in DOMAIN class_info
    /\ class_info[class_id] \in DOMAIN entity_serializers

InstalledSerializers ==
    {entity_serializers[n].serializer : n \in DOMAIN entity_serializers}

\* C8: a create entry is applied only if its class id has a class name and a
\* serializer was installed under that name by send tables; otherwise the
\* handler returns an error and the entity list is as it was.  So the
\* serializer of every live entity is one the send tables installed.
C8_CreateNeedsDecoder ==
    /\ [](\A e \in iter(entity_chunk) : e.serializer \in InstalledSerializers)
    /\ [][(EntryStep /\ pe_log'.cmd = 2) =>
              IF ClassKnown(pe_log'.class_id) THEN TRUE
              ELSE /\ result' # ""
                   /\ pe'.pc = "idle"
                   /\ pe_log'.kind # "create"
                   /\ entity_chunk' = entity_chunk]_vars

\* a create entry fails for want of a class name while other entities live
C8_Witness ==
    /\ pe_log.cmd = 2
    /\ result = "Unknown class id"
    /\ get(entity_chunk, pe_log.idx) = None
    /\ \E e \in iter(entity_chunk) : e.serializer \in InstalledSerializers

\* C9: an entry with cmd bit 0 set for an index without a live entity leaves
\* the entity list as it was, is not an error, and the loop goes on to the
\* next entry of the message.
C9_DeleteMissingIsSoft ==
    [][(/\ EntryStep
        /\ BitAnd(pe_log'.cmd, 1) = 1
        /\ get(entity_chunk, AsUsize(pe_log'.idx)) = None)
       => /\ entity_chunk' = entity_chunk
          /\ result' = ""
          /\ pe'.pc = "loop"
          /\ pe'.entry = pe.entry + 1
          /\ pe'.entries = pe.entries]_vars

\* a message went on to create an entity after a delete found nothing
C9_Witness ==
    /\ pe_log.soft >= 1
    /\ pe_log.kind = "create"
    /\ result = ""
    /\ get(entity_chunk, pe_log.idx) # None

----------------------------------------------------------------------------
(* Entity creation against the instance-baseline table *)

\* class 0 is registered under either of two names
BaselineClassInfoMsgs ==
    {<<Class(Some(0), Some("CA"))>>, <<Class(Some(0), Some("CB"))>>}

BaselineSendTablesMsgs == {FullSendTables, [data |-> FALSE, fields |-> <<>>, serializers |-> <<>>]}

PlainKey(str) == Some([hist |-> FALSE, pos |-> 0, size |-> 0, str |-> str])

TableEntry(incr, index, key, value) ==
    [incr |-> incr, index |-> index, key |-> key, value |-> value]

\* baseline bytes, as the field paths and values they decode to
BaselineBytes == {<<Field(0, 1)>>, <<Field(0, 2)>>}

\* the entries of a string table message: the baseline of class 0 by key, an
\* entry without a key at the same index, an entry without a value
TableEntries ==
    {<<>>, <<TableEntry(TRUE, 0, None, Some(<<Field(0, 2)>>))>>,
     <<TableEntry(TRUE, 0, PlainKey(to_string(0)), None)>>}
    \cup {<<TableEntry(TRUE, 0, PlainKey(to_string(0)), Some(b))>> : b \in BaselineBytes}

CreateTable(complete, name, baseline_fields, entries, eof) ==
    [complete |-> complete, name |-> name, baseline_fields |-> baseline_fields,
     entries |-> entries, eof |-> eof]

CreateTableMsgs ==
    {CreateTable(TRUE, STRING_TABLE_INSTANCE_BASELINE, TRUE, es, FALSE) : es \in TableEntries}
    \cup {CreateTable(FALSE, "userinfo", TRUE, <<>>, FALSE),
          CreateTable(TRUE, "userinfo", TRUE, <<>>, FALSE),
          CreateTable(TRUE, STRING_TABLE_INSTANCE_BASELINE, FALSE, <<>>, FALSE),
          CreateTable(TRUE, STRING_TABLE_INSTANCE_BASELINE, TRUE, <<>>, TRUE)}

\* the tables one run creates
MaxTables == 1

UpdateTableMsgs ==
    {[complete |-> TRUE, table_id |-> id, entries |-> es, eof |-> FALSE] :
        id \in {0, 1}, es \in TableEntries \ {<<>>}}
    \cup {[complete |-> c, table_id |-> 0, entries |-> <<>>, eof |-> ~c] : c \in BOOLEAN}

DemoTable(name, items) == [table_name |-> name, items |-> items]

DemoStringTablesMsgs ==
    {<<DemoTable(Some(STRING_TABLE_INSTANCE_BASELINE),
                 <<[str |-> Some(to_string(0)), data |-> Some(b)]>>)>> : b \in BaselineBytes}
    \cup {<<DemoTable(None, <<>>),
            DemoTable(Some("userinfo"), <<[str |-> Some(to_string(0)), data |-> None]>>),
            DemoTable(Some(STRING_TABLE_INSTANCE_BASELINE), <<[str |-> None, data |-> None]>>)>>}

BaselinePacketMsgs == {[complete |-> TRUE, updated_entries |-> 1, has_pvs |-> FALSE]}

BaselineEntryInputs ==
    {Entry(0, 1, 0, 0, 0, <<>>, "none"), Entry(0, 2, 0, 1, 0, <<>>, "none"),
     Entry(0, 2, 0, 1, 0, <<Field(0, 5)>>, "none")}

BaselineInit == ParserStart /\ ListStart /\ FpInit /\ DecStart /\ UnitStart

BaselineNext ==
    \/ \E msg \in BaselineClassInfoMsgs : HandleDemoClassInfo(msg) /\ UNCHANGED frameVars
    \/ \E msg \in BaselineSendTablesMsgs : HandleDemoSendTables(msg) /\ UNCHANGED frameVars
    \/ \E msg \in CreateTableMsgs :
           Len(string_tables) < MaxTables /\ HandleCreateStringTable(msg) /\ UNCHANGED frameVars
    \/ \E msg \in UpdateTableMsgs : HandleUpdateStringTable(msg) /\ UNCHANGED frameVars
    \/ \E msg \in DemoStringTablesMsgs : HandleDemoStringTables(msg) /\ UNCHANGED frameVars
    \/ \E msg \in BaselinePacketMsgs : HandlePacketEntities(msg) /\ UNCHANGED frameVars
    \/ \E in \in BaselineEntryInputs : PacketEntitiesEntry(in) /\ UNCHANGED frameVars
    \/ PacketEntitiesReturn /\ UNCHANGED frameVars

SpecBaseline == BaselineInit /\ [][BaselineNext]_vars

\* C10: two consecutive creations of the same class id, a registered class,
\* with no send-tables message between them, produce equal payloads in the
\* baseline step, whatever other messages are processed in between.
C10_BaselineEqualAlways ==
    (pe_log.base # None /\ pe_log.prev # None) => pe_log.base[1] = pe_log.prev[1].payload

\* C10 with its proviso: two consecutive creations of the same class id, a
\* registered class, with no send-tables message between them, produce equal
\* payloads in the baseline step, provided that no message in between wrote
\* the instancebaseline entry of that class id (or created the table) and no
\* class-info message was processed in between.
C10_BaselineEqualWhenClean ==
    (pe_log.base # None /\ pe_log.prev # None /\ pe_log.prev[1].clean)
        => pe_log.base[1] = pe_log.prev[1].payload

\* a second creation clones the decoded baseline of the first
C10_Witness ==
    /\ pe_log.base # None
    /\ pe_log.prev # None
    /\ pe_log.prev[1].clean
    /\ pe_log.base[1].fields["m_iHealth"] = 2
    /\ instance_baseline # None
    /\ get_cached(instance_baseline[1], to_string(pe_log.class_id)) = pe_log.base

SendTablesStep == \E msg \in BaselineSendTablesMsgs : HandleDemoSendTables(msg)

\* C11: every send-tables message processed while an instance-baseline table
\* exists leaves the prototype cache of the table empty, the second and any
\* later message of a demo included.
C11_PurgeOnEverySendTables ==
    [][(SendTablesStep /\ instance_baseline # None)
       => instance_baseline'[1].cache = EmptyFn]_vars

\* the keys whose raw bytes a step writes: new in the map, or bound to other
\* bytes or another index than before
WrittenKeys ==
    IF instance_baseline' = None THEN {}
    ELSE {k \in DOMAIN instance_baseline'[1].map :
            \/ instance_baseline = None
            \/ k \notin DOMAIN instance_baseline[1].map
            \/ instance_baseline[1].map[k] # instance_baseline'[1].map[k]}

\* C12: immediately after map[k] is written (by insert, or by an update entry
\* that resolves to key k) the cache holds no entry for k, so a cached
\* prototype for k was stored after the latest write of the raw bytes of k.
C12_WriteDropsCached ==
    [][\A k \in WrittenKeys : k \notin DOMAIN instance_baseline'[1].cache]_vars

\* a prototype was cached by a spawn and a later write of the key removed it
C12_Witness ==
    /\ instance_baseline # None
    /\ \E c \in DOMAIN baseline_hist :
          /\ ~baseline_hist[c].clean
          /\ to_string(c) \in DOMAIN instance_baseline[1].map
          /\ to_string(c) \notin DOMAIN instance_baseline[1].cache

----------------------------------------------------------------------------
(* lib.rs: the frame envelope, read_frame and the registration calls *)

\* EDemoCommands, generated from demo.proto
DemStop == 0

DemFileHeader == 1

DemFileInfo == 2

DemSendTables == 4

DemClassInfo == 5

DemStringTables == 6

DemPacket == 7

DemSignonPacket == 8

DemIsCompressed == 64

\* A u64 is carried as the set of the positions of its one bits.
\* ((b & 0x7f) as u64) << shift, for a shift below 64: the bits shifted past
\* position 63 are lost
ShiftedBits(b, shift) ==
    {shift + j : j \in {i \in 0 .. 6 : (b \div Pow2(i)) % 2 = 1}} \cap (0 .. 63)

\* read_varint over the bytes left in the reader.  `shift` grows by 7 per
\* byte without a limit; a shift of 64 or more panics in a build with
\* overflow checks and is taken modulo 64 in a build without them.
RECURSIVE read_varint(_, _, _, _)
read_varint(bytes, value, shift, overflow_checks) ==
    IF bytes = <<>>
    THEN [kind |-> "err", value |-> {}, rest |-> <<>>]
    ELSE IF shift >= 64 /\ overflow_checks
    THEN [kind |-> "panic", value |-> {}, rest |-> <<>>]
    ELSE LET v == value \cup ShiftedBits(Head(bytes), shift % 64)
         IN  IF Head(bytes) < 128
             THEN [kind |-> "ok", value |-> v, rest |-> Tail(bytes)]
             ELSE read_varint(Tail(bytes), v, shift + 7, overflow_checks)

\* the low 31 bits of a u64 as a number
RECURSIVE Low31(_, _)
Low31(bits, p) ==
    IF p < 0 THEN 0
    ELSE (IF p \in bits THEN Pow2(p) ELSE 0) + Low31(bits, p - 1)

\* `as i32` and `as u32` keep the low 32 bits (a u32 is carried as the i32
\* with the same bits)
AsI32(bits) ==
    IF 31 \in bits THEN (Low31(bits, 30) - Pow2(30)) - Pow2(30) ELSE Low31(bits, 30)

\* `as usize` of a u64
U64AsUsize(bits) ==
    IF \E p \in bits : p >= 31 THEN UsizeHigh ELSE Low31(bits, 30)

\* the three varints of the envelope, read one after the other
read_envelope(bytes, overflow_checks) ==
    LET c == read_varint(bytes, {}, 0, overflow_checks)
        t == read_varint(c.rest, {}, 0, overflow_checks)
        s == read_varint(t.rest, {}, 0, overflow_checks)
    IN  IF c.kind # "ok" THEN [kind |-> c.kind, cmd |-> 0, tick |-> 0, size |-> 0]
        ELSE IF t.kind # "ok" THEN [kind |-> t.kind, cmd |-> 0, tick |-> 0, size |-> 0]
        ELSE IF s.kind # "ok" THEN [kind |-> s.kind, cmd |-> 0, tick |-> 0, size |-> 0]
        ELSE [kind |-> "ok", cmd |-> AsI32(c.value), tick |-> AsI32(t.value),
              size |-> U64AsUsize(s.value)]

\* cmd & DemIsCompressed != 0, for an i32 in two's complement
is_compressed(cmd) == (cmd \div DemIsCompressed) % 2 = 1

\* a faulty mask that keeps the compressed bit
clear_compressed_keep(cmd) == cmd

\* cmd & !DemIsCompressed
clear_compressed(cmd) == IF is_compressed(cmd) THEN cmd - DemIsCompressed ELSE cmd

is_fresh == map_name = ""

\* a faulty comparison that finds every tick new
tick_changed_always(t) == TRUE

\* tick != self.state.tick
tick_changed(t) == t # tick

TickEvent(t) == [type |-> "TickEvent", tick |-> t]

DemoEndEvent == [type |-> "DemoEndEvent", tick |-> 0]

DemoStartEvent == [type |-> "DemoStartEvent", tick |-> 0]

FrameLog(ret, err, e, events, handler, overflow, read) ==
    [call |-> "read_frame", ret |-> ret, err |-> err, cmd |-> e.cmd, tick |-> e.tick,
     events |-> events, handler |-> handler, overflow |-> overflow, read |-> read]

\* history: a frame was parsed when read_frame read its envelope and its
\* payload; the tick of the frame read last is the tick of the last such frame
FrameHist(ret, read, t) ==
    [parsed |-> frame_hist.parsed \/ read,
     last_tick |-> IF read THEN t ELSE frame_hist.last_tick,
     failed |-> frame_hist.failed \/ ret \in {"Err", "panic"}]

\* handle_demo_file_header; `fail` names the event type whose listener
\* returns an error, if any
HandleDemoFileHeader(msg, fail) ==
    /\ pe.pc = "idle"
    /\ map_name' = IF msg.map_name # None THEN msg.map_name[1] ELSE map_name
    /\ network_protocol' = IF msg.map_name # None /\ msg.network_protocol # None
                           THEN msg.network_protocol[1] ELSE network_protocol
    /\ result' = IF msg.map_name = None THEN "Missing map name in demo file header"
                 ELSE IF msg.network_protocol = None
                 THEN "Missing network protocol in demo file header"
                 ELSE IF fail = "DemoStartEvent" THEN "listener error" ELSE ""
    /\ pe_log' = NoLog
    /\ UNCHANGED <<class_info, entity_serializers, instance_baseline, string_tables,
                   pe, baseline_hist>>
    /\ UNCHANGED <<listVars, fpVars, decVars, unitVars>>

\* handle_demo_packet on a packet without data: it returns Ok(()) at once
HandleDemoPacket(msg) ==
    /\ pe.pc = "idle"
    /\ msg.data = None
    /\ result' = ""
    /\ pe_log' = NoLog
    /\ UNCHANGED <<class_info, entity_serializers, instance_baseline, string_tables,
                   pe, baseline_hist>>
    /\ UNCHANGED <<listVars, fpVars, decVars, unitVars>>

\* the commands of the handle_command! table
HandledCommands ==
    {DemPacket, DemSignonPacket, DemFileHeader, DemSendTables, DemClassInfo,
     DemStringTables}

HandlerName(cmd) ==
    IF cmd \in {DemPacket, DemSignonPacket} THEN "handle_demo_packet"
    ELSE IF cmd = DemFileHeader THEN "handle_demo_file_header"
    ELSE IF cmd = DemSendTables THEN "handle_demo_send_tables"
    ELSE IF cmd = DemClassInfo THEN "handle_demo_class_info"
    ELSE IF cmd = DemStringTables THEN "handle_demo_string_tables"
    ELSE ""

\* history: a varint still has its continuation bit set on its 10th byte
Overflows(bytes) == Len(bytes) >= 10 /\ \A i \in 1 .. 10 : bytes[i] >= 128

\* read_frame returns without a handler: nothing but the log changes
FrameReturns(ret, err, e, events, handler, overflow, read) ==
    /\ frame_log' = FrameLog(ret, err, e, events, handler, overflow, read)
    /\ frame_hist' = FrameHist(ret, read, e.tick)

\* read_frame.  cb, tb, sb are the bytes of the three varints, `avail` says
\* whether the reader holds `size` more bytes, `body` is the message the
\* payload decompresses and decodes to (None if it does not), `fail` names
\* the event type whose listener returns an error, if any.
ReadFrame(cb, tb, sb, avail, body, fail, overflow_checks) ==
    /\ pe.pc = "idle"
    /\ UNCHANGED <<late_creators, game_event_serializers>>
    /\ \E e \in {read_envelope(cb \o tb \o sb, overflow_checks)},
          ov \in {Overflows(cb) \/ Overflows(tb) \/ Overflows(sb)} :
        IF e.kind = "panic"
        THEN /\ FrameReturns("panic", "attempt to shift left with overflow", e, <<>>,
                             "", ov, FALSE)
             /\ UNCHANGED <<tick, map_name, network_protocol, parserVars, listVars, fpVars, decVars, unitVars>>
        ELSE IF e.kind = "err"
        THEN /\ FrameReturns("Err", "EOF while reading varint", e, <<>>, "", ov, FALSE)
             /\ UNCHANGED <<tick, map_name, network_protocol, parserVars, listVars, fpVars, decVars, unitVars>>
        ELSE IF ~avail
        THEN /\ FrameReturns("Err", "failed to fill whole buffer", e, <<>>, "", ov, FALSE)
             /\ UNCHANGED <<tick, map_name, network_protocol, parserVars, listVars, fpVars, decVars, unitVars>>
        ELSE IF tick_changed(e.tick) /\ fail = "TickEvent"
        THEN /\ FrameReturns("Err", "listener error", e, <<TickEvent(e.tick)>>, "", ov, TRUE)
             /\ UNCHANGED <<tick, map_name, network_protocol, parserVars, listVars, fpVars, decVars, unitVars>>
        ELSE \E events \in {IF tick_changed(e.tick) THEN <<TickEvent(e.tick)>> ELSE <<>>},
                cmd \in {clear_compressed(e.cmd)} :
            /\ tick' = e.tick
            /\ IF cmd = DemStop
               THEN /\ IF fail = "DemoEndEvent"
                       THEN FrameReturns("Err", "listener error", e,
                                         Append(events, DemoEndEvent), "", ov, TRUE)
                       ELSE FrameReturns("Ok(false)", "", e,
                                         Append(events, DemoEndEvent), "", ov, TRUE)
                    /\ UNCHANGED <<map_name, network_protocol, parserVars, listVars, fpVars, decVars, unitVars>>
               ELSE IF cmd \notin HandledCommands
               THEN /\ FrameReturns("Ok(true)", "", e, events, "", ov, TRUE)
                    /\ UNCHANGED <<map_name, network_protocol, parserVars, listVars, fpVars, decVars, unitVars>>
               ELSE IF body = None
               THEN /\ FrameReturns("Err", "Failed to decode message", e, events, "", ov, TRUE)
                    /\ UNCHANGED <<map_name, network_protocol, parserVars, listVars, fpVars, decVars, unitVars>>
               ELSE /\ IF cmd = DemFileHeader
                       THEN \E msg \in {body[1]} :
                               /\ HandleDemoFileHeader(msg, fail)
                               /\ frame_log' = FrameLog(
                                      IF result' = "" THEN "Ok(true)" ELSE "Err", result', e,
                                      IF msg.map_name # None /\ msg.network_protocol # None
                                      THEN Append(events, DemoStartEvent) ELSE events,
                                      HandlerName(cmd), ov, TRUE)
                       ELSE /\ IF cmd = DemSendTables
                               THEN HandleDemoSendTables(body[1])
                               ELSE IF cmd = DemClassInfo
                               THEN HandleDemoClassInfo(body[1])
                               ELSE IF cmd = DemStringTables
                               THEN HandleDemoStringTables(body[1])
                               ELSE HandleDemoPacket(body[1])
                            /\ frame_log' = FrameLog(
                                   IF result' = "" THEN "Ok(true)" ELSE "Err", result', e,
                                   events, HandlerName(cmd), ov, TRUE)
                            /\ UNCHANGED <<map_name, network_protocol>>
                    /\ frame_hist' = FrameHist(IF result' = "" THEN "Ok(true)" ELSE "Err",
                                               TRUE, e.tick)

RegisterLog(call, ret, err) ==
    [NoFrame EXCEPT !.call = call, !.ret = ret, !.err = err]

\* register_entity_serializer
RegisterEntitySerializer(name) ==
    /\ late_creators' = IF ~is_fresh THEN late_creators ELSE late_creators \cup {name}
    /\ frame_log' = RegisterLog("register_entity_serializer", "()", "")
    /\ UNCHANGED <<tick, map_name, network_protocol, game_event_serializers, frame_hist>>
    /\ UNCHANGED <<listVars, fpVars, parserVars, decVars, unitVars>>

\* register_game_event_serializer_factory
RegisterGameEventSerializerFactory(event_name) ==
    /\ IF ~is_fresh
       THEN /\ frame_log' = RegisterLog("register_game_event_serializer_factory", "Err",
                   "Cannot register game event serializer after parsing has started")
            /\ UNCHANGED game_event_serializers
       ELSE IF event_name \in game_event_serializers
       THEN /\ frame_log' = RegisterLog("register_game_event_serializer_factory", "Err",
                   "Game event serializer already exists")
            /\ UNCHANGED game_event_serializers
       ELSE /\ frame_log' = RegisterLog("register_game_event_serializer_factory", "Ok(())", "")
            /\ game_event_serializers' = game_event_serializers \cup {event_name}
    /\ UNCHANGED <<tick, map_name, network_protocol, late_creators, frame_hist>>
    /\ UNCHANGED <<listVars, fpVars, parserVars, decVars, unitVars>>

\* a varint of more than ten bytes: ten bytes with the continuation bit, then 1
OverflowingVarint == [i \in 1 .. 11 |-> IF i <= 10 THEN 128 ELSE 1]

Listeners == {"", "TickEvent", "DemoEndEvent", "DemoStartEvent"}

FrameInput(cb, tb, sb, avail, body, fail, overflow_checks) ==
    [cb |-> cb, tb |-> tb, sb |-> sb, avail |-> avail, body |-> body,
     fail |-> fail, overflow_checks |-> overflow_checks]

FileHeader(name, protocol) == [map_name |-> name, network_protocol |-> protocol]

\* frames with one-byte varints: the stop command, a command that is not in
\* the table, commands of the table, the compressed bit, three ticks, a
\* failing listener of each type; a payload that does not decode; a payload
\* cut short
FrameInputs ==
    {FrameInput(<<c>>, <<t>>, <<0>>, TRUE, Some(FullSendTables), fail, TRUE) :
        c \in {DemStop, DemIsCompressed + DemStop, DemFileInfo, DemSendTables,
               DemIsCompressed + DemSendTables},
        t \in {0, 1, 2}, fail \in Listeners \ {"DemoStartEvent"}}
    \cup {FrameInput(<<DemSendTables>>, <<1>>, <<0>>, TRUE, None, "", TRUE),
          FrameInput(<<DemStop>>, <<1>>, <<1>>, FALSE, None, "", TRUE)}

FrameInit == ParserStart /\ ListStart /\ FpInit /\ DecStart /\ UnitStart

FrameNext ==
    \E in \in FrameInputs :
        ReadFrame(in.cb, in.tb, in.sb, in.avail, in.body, in.fail, in.overflow_checks)

SpecFrame == FrameInit /\ [][FrameNext]_vars

\* the events of one type among those a frame dispatched
EventsOf(type, events) == SelectSeq(events, LAMBDA ev : ev.type = type)

StopCommands == {DemStop, DemStop + DemIsCompressed}

\* C14: a frame whose envelope and payload were read returns Ok(false) only
\* if its command id, the compressed bit cleared, is DemStop; a stop frame
\* runs no command handler, dispatches DemoEndEvent once and, unless a
\* listener fails, returns Ok(false); every other frame handled without an
\* error returns Ok(true) and dispatches no DemoEndEvent, a frame of an
\* unrecognised command included.
C14_StopReturnsFalse ==
    (frame_log.call = "read_frame" /\ frame_log.read) =>
        /\ frame_log.ret = "Ok(false)" => frame_log.cmd \in StopCommands
        /\ frame_log.cmd \in StopCommands =>
              /\ frame_log.handler = ""
              /\ frame_log.ret \in {"Ok(false)", "Err"}
              /\ frame_log.ret = "Ok(false)"
                    => EventsOf("DemoEndEvent", frame_log.events) = <<DemoEndEvent>>
        /\ frame_log.cmd \notin StopCommands =>
              /\ frame_log.ret \in {"Ok(true)", "Err"}
              /\ EventsOf("DemoEndEvent", frame_log.events) = <<>>
              /\ (frame_log.cmd % DemIsCompressed \notin HandledCommands
                    /\ frame_log.err # "listener error")
                    => frame_log.ret = "Ok(true)" /\ frame_log.handler = ""

\* a compressed stop frame of a new tick returned Ok(false) after its
\* DemoEndEvent
C14_Witness ==
    /\ frame_log.call = "read_frame"
    /\ frame_log.cmd = DemStop + DemIsCompressed
    /\ frame_log.ret = "Ok(false)"
    /\ frame_log.events = <<TickEvent(1), DemoEndEvent>>

----------------------------------------------------------------------------
(* registration before and after frames *)

FileHeaderMsgs ==
    {FileHeader(Some("de_dust2"), Some(1)), FileHeader(Some("de_dust2"), None),
     FileHeader(None, Some(1)), FileHeader(Some(""), Some(1))}

\* the frames of a demo around its header: the header itself, the other
\* commands of the table, a command that is not in the table, the stop command
RegisterFrameInputs ==
    {FrameInput(<<DemFileHeader>>, <<0>>, <<0>>, TRUE, Some(msg), fail, TRUE) :
        msg \in FileHeaderMsgs, fail \in {"", "DemoStartEvent"}}
    \cup {FrameInput(<<DemClassInfo>>, <<0>>, <<0>>, TRUE,
                     Some(<<Class(Some(0), Some("CA"))>>), "", TRUE),
          FrameInput(<<DemStringTables>>, <<0>>, <<0>>, TRUE,
                     Some(<<DemoTable(None, <<>>)>>), "", TRUE),
          FrameInput(<<DemPacket>>, <<0>>, <<0>>, TRUE, Some([data |-> None]), "", TRUE),
          FrameInput(<<DemSignonPacket>>, <<1>>, <<0>>, TRUE, Some([data |-> None]), "",
                     TRUE),
          FrameInput(<<DemFileInfo>>, <<0>>, <<0>>, TRUE, None, "", TRUE),
          FrameInput(<<DemStop>>, <<1>>, <<0>>, TRUE, None, "", TRUE)}

RegisterNext ==
    \/ \E in \in RegisterFrameInputs :
            ReadFrame(in.cb, in.tb, in.sb, in.avail, in.body, in.fail, in.overflow_checks)
    \/ \E name \in {"CX", "CY"} : RegisterEntitySerializer(name)
    \/ \E event_name \in {"player_death", "round_start"} :
            RegisterGameEventSerializerFactory(event_name)

SpecRegister == FrameInit /\ [][RegisterNext]_vars

\* C15: is_fresh() is true iff no frame has yet been parsed by read_frame;
\* once a frame has been parsed, register_entity_serializer leaves the set of
\* registered class factories unchanged and
\* register_game_event_serializer_factory returns an error.
C15_FreshIffNoFrameParsed ==
    /\ [](is_fresh <=> ~frame_hist.parsed)
    /\ [][frame_hist.parsed =>
            /\ late_creators' = late_creators
            /\ frame_log'.call = "register_game_event_serializer_factory"
                  => frame_log'.ret = "Err"]_vars

----------------------------------------------------------------------------
(* the varints of the envelope *)

\* envelopes whose varints take one byte, two bytes, or more than ten bytes,
\* or end with the reader; builds with and without overflow checks
EnvelopeInputs ==
    {FrameInput(cb, tb, sb, avail, None, "", overflow_checks) :
        cb \in {<<DemFileInfo>>, <<DemStop>>, <<128 + DemFileInfo, 0>>, OverflowingVarint},
        tb \in {<<0>>, <<1>>, <<129, 1>>, OverflowingVarint, <<128>>},
        sb \in {<<0>>, OverflowingVarint},
        avail \in BOOLEAN, overflow_checks \in BOOLEAN}

EnvelopeNext ==
    \E in \in EnvelopeInputs :
        ReadFrame(in.cb, in.tb, in.sb, in.avail, in.body, in.fail, in.overflow_checks)

SpecEnvelope == FrameInit /\ [][EnvelopeNext]_vars

\* C20: read_frame returns an error result when one of the three envelope
\* varints (cmd, tick, size) still has its continuation bit set on the 10th
\* byte: it neither panics nor wraps the value.
C20_OverflowIsError ==
    (frame_log.call = "read_frame" /\ frame_log.overflow) => frame_log.ret = "Err"

----------------------------------------------------------------------------
(* sequences of decodes through one Optional and one Vector decoder *)

\* the paths a decoder is handed: empty, one index, two indices
DecPaths == {<<>>, <<0>>, <<1>>, <<2>>, <<0, 0>>}

\* the length a vector is resized to
MaxVecLen == 2

\* readers of at most one value: a presence bit or a primitive, a length
BitReaders == {<<>>, <<0>>, <<1>>}

VarintReaders == {<<>>} \cup {<<v>> : v \in 0 .. MaxVecLen}

DecoderInit == DecStart /\ ParserStart /\ ListStart /\ FpInit /\ UnitStart

OptionalVectorNext ==
    \/ \E target \in BOOLEAN, path \in DecPaths, reader \in BitReaders :
            OptionalStep(target, path, reader)
    \/ \E target \in BOOLEAN, path \in DecPaths, reader \in VarintReaders :
            VectorStep(target, path, reader)

SpecOptionalVector == DecoderInit /\ [][OptionalVectorNext]_vars

\* C16: through an Optional decoder with a materialised target, the payload
\* is present iff the most recent empty-path decode read presence bit 1, the
\* inner decoder is invoked only then, and a non-empty path arriving while
\* the payload is absent (initially, or after presence bit 0) returns an
\* error without invoking the inner decoder or consuming bits.
C16_InnerOnlyWhenPresent ==
    /\ (dec_opt # None) <=> (dec_hist.presence = 1)
    /\ (dec_log.decoder = "Optional" /\ dec_log.target = "some") =>
          /\ dec_log.inner # <<>> => dec_hist.presence = 1
          /\ (dec_log.path # <<>> /\ dec_hist.presence # 1) =>
                /\ dec_log.ret = "Err"
                /\ dec_log.inner = <<>>
                /\ dec_log.consumed = <<>>

\* after presence bit 1 a non-empty path reached the inner decoder, which
\* read a value into the payload
C16_Witness ==
    /\ dec_log.decoder = "Optional"
    /\ dec_log.target = "some"
    /\ dec_log.path = <<0>>
    /\ dec_log.inner # <<>>
    /\ dec_log.ret = "Ok"
    /\ dec_opt = Some([x |-> 1])

\* C17: through a Vector decoder with a materialised target, an element
\* decode with path head i reaches the element decoder iff i is below the
\* length set by the most recent empty-path decode (0 if there was none) and
\* otherwise returns an error; an empty-path decode sets the length to the
\* decoded varint, keeps the elements below the new length and
\* default-initialises the new ones.
C17_IndexBelowLength ==
    /\ [](/\ Len(dec_vec) = dec_hist.vec_len
          /\ (dec_log.decoder = "Vector" /\ dec_log.target = "some"
                /\ dec_log.path # <<>>) =>
                /\ dec_log.inner # <<>> <=> dec_log.path[1] < dec_hist.vec_len
                /\ dec_log.path[1] >= dec_hist.vec_len =>
                      dec_log.ret = "Err" /\ dec_log.consumed = <<>>)
    /\ [][(dec_log'.decoder = "Vector" /\ dec_log'.target = "some"
             /\ dec_log'.path = <<>> /\ dec_log'.ret = "Ok") =>
             /\ Len(dec_vec') = dec_log'.consumed[1]
             /\ \A i \in 1 .. Len(dec_vec') :
                   dec_vec'[i] = IF i <= Len(dec_vec) THEN dec_vec[i] ELSE 0]_vars

\* a vector holding a decoded element was resized to a greater length: the
\* element is kept and the new one is the default
C17_Witness ==
    /\ dec_log.decoder = "Vector"
    /\ dec_log.target = "some"
    /\ dec_log.path = <<>>
    /\ dec_log.ret = "Ok"
    /\ Len(dec_vec) = 2
    /\ dec_vec[1] # 0
    /\ dec_vec[2] = 0

----------------------------------------------------------------------------
(* decodes through one Array and one Polymorphic decoder *)

\* a presence bit and a serializer index, or a primitive
PolymorphicReaders ==
    {<<>>, <<1>>} \cup {<<b, i>> : b \in {0, 1}, i \in 0 .. Len(Candidates)}

ArrayPolymorphicNext ==
    \/ \E target \in BOOLEAN, path \in DecPaths, reader \in BitReaders :
            ArrayStep(target, path, reader)
    \/ \E shape \in {"PolymorphicEntity", "usize"}, path \in DecPaths,
          reader \in PolymorphicReaders :
            PolymorphicStep(shape, path, reader)

SpecArrayPolymorphic == DecoderInit /\ [][ArrayPolymorphicNext]_vars

\* C18: an Array(N) decoder returns an error, consuming no bits, whenever the
\* path is empty or its head is N or more, with a target and with none; it
\* never panics and never hands an out-of-range index to the element decoder.
C18_ArrayIndexChecked ==
    dec_log.decoder = "Array" =>
        /\ dec_log.ret # "panic"
        /\ \A c \in {dec_log.inner[j] : j \in DOMAIN dec_log.inner} : c.index < ArraySize
        /\ (dec_log.path = <<>> \/ dec_log.path[1] >= ArraySize) =>
              dec_log.ret = "Err" /\ dec_log.consumed = <<>>

\* C19: a Polymorphic decoder given an empty path that reads a serializer
\* index not below the number of candidates returns an error and does not
\* store the index, for a PolymorphicEntity and for a bare usize; so a later
\* non-empty path never selects a candidate outside the set.
C19_PolymorphicIndexChecked ==
    /\ dec_poly.index < Len(Candidates)
    /\ dec_skip.index < Len(Candidates)
    /\ dec_log.decoder = "Polymorphic" =>
          /\ dec_log.ret # "panic"
          /\ (dec_log.path = <<>> /\ Len(dec_log.consumed) = 2
                /\ dec_log.consumed[2] >= Len(Candidates)) => dec_log.ret = "Err"

----------------------------------------------------------------------------
(* signed varints read from the bit reader *)

\* n bytes, all with the continuation bit but the last
VarintBytes(n, first, last) ==
    [i \in 1 .. n |-> IF i = n THEN last ELSE IF i = 1 THEN first ELSE 255]

\* byte strings whose unsigned value is 0, 1, 2, 3, 2^31 - 1, 2^31, the two
\* largest of each width, one whose top byte carries bits past the width, one
\* longer than the width allows and one that ends with the reader
VarintInputs ==
    {<<0>>, <<1>>, <<2>>, <<3>>, <<128>>,
     VarintBytes(5, 255, 7), VarintBytes(5, 254, 7),
     <<128, 128, 128, 128, 8>>, <<129, 128, 128, 128, 8>>,
     VarintBytes(5, 255, 15), VarintBytes(5, 254, 15), VarintBytes(5, 255, 31),
     VarintBytes(10, 255, 1), VarintBytes(10, 254, 1), VarintBytes(11, 255, 1)}

VarintInit == ParserStart /\ ListStart /\ FpInit /\ DecStart /\ UnitStart

VarintNext ==
    \E width \in {32, 64}, bytes \in VarintInputs, overflow_checks \in BOOLEAN :
        ReadVarintSigned(width, bytes, overflow_checks)

SpecVarint == VarintInit /\ [][VarintNext]_vars

\* does the two's complement number of `width` bits fit an i32
FitsI32(bits, width) ==
    \/ \A p \in 31 .. width - 1 : p \notin bits
    \/ \A p \in 31 .. width - 1 : p \in bits

\* the number a read returned, when it fits an i32
SignedValue(bits) == AsI32(bits)

\* C21: for every unsigned value v of the width read, read_varint_i32 and
\* read_varint_i64 return v>>1 when v is even and -((v>>1)+1), the bitwise
\* complement of v>>1, when v is odd; two different unsigned values never
\* decode to the same signed value.  (-((v>>1)+1) is written -(v>>1) - 1.)
C21_ZigZagInverse ==
    LET c == varint_log.cur
        p == varint_log.prev
        half == Shr1(c.v)
    IN  /\ c.kind = "ok" =>
            /\ 0 \notin c.v => c.ret = half
            /\ 0 \in c.v => c.ret = Not(half, c.width)
            /\ FitsI32(half, c.width) =>
                  /\ FitsI32(c.ret, c.width)
                  /\ SignedValue(c.ret) = IF 0 \in c.v THEN (0 - SignedValue(half)) - 1
                                          ELSE SignedValue(half)
        /\ (c.kind = "ok" /\ p.kind = "ok" /\ c.width = p.width /\ c.v # p.v)
              => c.ret # p.ret

\* the minimum of each width has been decoded, from the largest unsigned
\* value, after an even value was
C21_Witness ==
    /\ varint_log.cur.kind = "ok" /\ varint_log.prev.kind = "ok"
    /\ varint_log.cur.width = varint_log.prev.width
    /\ varint_log.cur.v = 0 .. varint_log.cur.width - 1
    /\ varint_log.cur.ret = {varint_log.cur.width - 1}
    /\ varint_log.prev.v = 1 .. varint_log.prev.width - 1

----------------------------------------------------------------------------
(* one quantized float decoder: constructed once, then decoding *)

\* the (bits, flags, low, high) of the model: no bits, few bits, a byte and a
\* full word; every combination of the four flags; ranges below, across, at
\* and above zero, upside down, and with a NaN bound
QuantizedBits == {0, 1, 8, 32}

QuantizedLows == {Dyadic(-64, 0), Dyadic(-1, 0), F32Zero, Dyadic(1, 0), F32NaN}

QuantizedHighs == {Dyadic(-1, 0), F32Zero, Dyadic(1, 0), Dyadic(100, 0), Dyadic(360, 0)}

\* bit streams: a single 1, eight value bits that start with 1, all zero, and
\* nine bits of which the second is 1
QuantizedReaders ==
    {<<1>>, <<1, 0, 0, 0, 0, 0, 0, 0>>, <<0, 0, 0, 0, 0, 0, 0, 0>>,
     <<0, 1, 0, 0, 0, 0, 0, 0, 0>>}

\* the calls of decode_typed made on one decoder
MaxDecodes == 1

QuantizedInit == ParserStart /\ ListStart /\ FpInit /\ DecStart /\ UnitStart

QuantizedNext ==
    \/ /\ quantized = NoQuantized
       /\ \E bits \in QuantizedBits, flags \in 0 .. 15, low \in QuantizedLows,
             high \in QuantizedHighs, overflow_checks \in BOOLEAN :
             QuantizedNew(bits, flags, low, high, overflow_checks)
    \/ /\ quant_log.calls < MaxDecodes
       /\ \E target \in BOOLEAN, reader \in QuantizedReaders :
             QuantizedDecodeStep(target, reader)

SpecQuantized == QuantizedInit /\ [][QuantizedNext]_vars

\* the number of the three sentinel flags a decoder has set
FlagsSet(s) ==
    Cardinality({f \in {"rounddown", "roundup", "encode_zero"} : s[f]})

\* C22 as stated: after F32SerializerQuantized::new returns Ok, at most one
\* of rounddown, roundup and encode_zero is set, and none in integer mode.
C22_AtMostOneFlag ==
    quantized.out.kind = "Ok" =>
        /\ FlagsSet(quantized.out.s) <= 1
        /\ HasFlag(quantized.args[2], QFF_ENCODE_INTEGERS) => FlagsSet(quantized.out.s) = 0

\* C22, amended: after F32SerializerQuantized::new returns Ok, rounddown and
\* roundup are never both set, and integer mode leaves none of the three flags
\* set; encode_zero may stay set together with one round flag.
C22_RoundFlagsExclusive ==
    quantized.out.kind = "Ok" =>
        /\ ~(quantized.out.s.rounddown /\ quantized.out.s.roundup)
        /\ HasFlag(quantized.args[2], QFF_ENCODE_INTEGERS) => FlagsSet(quantized.out.s) = 0

\* a decoder constructed from finite bounds that has roundup and encode_zero
\* set: bits = 8, flags = ROUNDUP | ENCODE_ZERO, low = -64, high = 100
C22_Witness ==
    /\ quantized.args = <<8, QFF_ROUNDUP + QFF_ENCODE_ZERO, Dyadic(-64, 0), Dyadic(100, 0)>>
    /\ quantized.out.kind = "Ok"
    /\ quantized.out.s.roundup /\ quantized.out.s.encode_zero

\* the decoder of the fixture: bits = 8, flags = ROUNDDOWN, low = 0, high = 360
Fixture == <<8, QFF_ROUNDDOWN, F32Zero, Dyadic(360, 0)>>

\* a decode into a target from a stream whose first bit is 1
FirstBitOne == quant_log.target /\ quant_log.reader # <<>> /\ Head(quant_log.reader) = 1

\* C23 as stated: the decoder of the fixture, decoding a stream whose first
\* bit is 1, yields exactly 0.0 (low): that bit is consumed as the round-down
\* sentinel and no value bits are read.
C23_FixtureYieldsLow ==
    (quantized.args = Fixture /\ FirstBitOne) =>
        /\ quant_log.out.ret = "Ok"
        /\ quant_log.out.entity = Some(F32Zero)
        /\ quant_log.out.sentinel = "low"
        /\ Len(quant_log.out.reader) = Len(quant_log.reader) - 1

\* C23, amended: construction clears the round-down flag of the fixture (low
\* quantizes to itself) and leaves high = 360 - 360/256, so the decoder reads
\* no sentinel: a stream of fewer than 8 bits is an error, and from 8 bits or
\* more it reads 8 value bits v and yields low + (high - low) * v * dec_mul,
\* which is 0.0 only for v = 0 (a stream whose first bit is 1 yields a
\* non-zero value).  A decoder whose round-down flag is still set after
\* construction yields low from a first bit 1 and reads that bit only.
C23_FixtureReadsValueBits ==
    /\ quantized.args = Fixture =>
          /\ quantized.out.kind = "Ok"
          /\ ~quantized.out.s.rounddown
          /\ quantized.out.s.high = Dyadic(11475, -5)
          /\ (quant_log.target /\ quant_log.reader # <<>>) =>
                IF Len(quant_log.reader) < 8 THEN quant_log.out.ret = "Err"
                ELSE /\ quant_log.out.ret = "Ok"
                     /\ quant_log.out.sentinel = ""
                     /\ Len(quant_log.out.reader) = Len(quant_log.reader) - 8
                     /\ (quant_log.out.entity = Some(F32Zero))
                           <=> (read_var(quant_log.reader, 8) = 0)
    /\ (quantized.out.kind = "Ok" /\ quantized.out.s.rounddown /\ FirstBitOne) =>
          /\ quant_log.out.ret = "Ok"
          /\ quant_log.out.entity = Some(quantized.out.s.low)
          /\ quant_log.out.sentinel = "low"
          /\ Len(quant_log.out.reader) = Len(quant_log.reader) - 1

\* the decoder of the fixture has decoded eight bits that start with 1 into a
\* non-zero value
C23_Witness ==
    /\ quantized.args = Fixture
    /\ FirstBitOne
    /\ quant_log.out.ret = "Ok"
    /\ quant_log.out.entity # Some(F32Zero)
    /\ quant_log.out.reader = <<>>

----------------------------------------------------------------------------
(* the entries of packet-entities messages: what each reads and does *)

Elements(seq) == {seq[i] : i \in DOMAIN seq}

\* the field paths of the stream of an entry, in order
StreamPaths(in) == [i \in 1 .. Len(in.upd) |-> in.upd[i].f]

\* the field paths of the entry were decoded into the entity at its index,
\* unless the entry is the last and the entity of the Unknown class
FieldsDecoded(l, after) ==
    \/ /\ "read_field_paths" \in Elements(l.reads)
       /\ l.dispatched = StreamPaths(l.entry.in[1])
    \/ l.entry.last /\ after[1].item = UnknownEntity

\* C28: for each entry of a packet-entities message exactly one of four
\* actions is taken, chosen with this precedence: cmd bit 0 set => delete
\* (whatever bit 1 is, and no further bits of the entry are read); else cmd
\* bit 1 set => create, then the field paths, without reading PVS bits; else
\* has_pvs_vis_bits and the low bit of the next 2 bits set => the entry is
\* skipped with no field decoding and no change to the entity; else update
\* (the field paths are decoded into the existing entity).  An entry that
\* fails returns its error from the branch so chosen.
C28_EntryPrecedence ==
    [][(EntryStep /\ pe_log'.entry.in[1].eof # "head") =>
          LET l == pe_log'
              in == l.entry.in[1]
              after == get(entity_chunk', AsUsize(l.idx))
          IN  IF BitAnd(l.cmd, 1) = 1
              THEN /\ l.kind \in {"delete", "delete_missing"}
                   /\ l.reads = HeadReads
                   /\ l.dispatched = <<>>
                   /\ after = None
                   /\ result' = ""
              ELSE IF BitAnd(l.cmd, 2) # 0
              THEN /\ l.kind \in {"create", "error"}
                   /\ SubSeq(l.reads, 1, Len(HeadReads \o CreateReads))
                          = HeadReads \o CreateReads
                   /\ "pvs" \notin Elements(l.reads)
                   /\ l.kind = "create" =>
                          /\ after # None
                          /\ FieldsDecoded(l, after)
                          /\ after[1].serial = in.serial
                          /\ after[1].serializer = class_serializer(in.class_id).val[1].serializer
              ELSE IF in.has_pvs /\ in.pvs % 2 = 1
              THEN /\ l.kind = "pvs_skip"
                   /\ l.reads = Append(HeadReads, "pvs")
                   /\ l.dispatched = <<>>
                   /\ entity_chunk' = entity_chunk
                   /\ result' = ""
              ELSE /\ l.kind \in {"update", "error"}
                   /\ "pvs" \in Elements(l.reads) <=> in.has_pvs
                   /\ l.kind = "update" =>
                          /\ l.entry.before # None
                          /\ after # None
                          /\ FieldsDecoded(l, after)
                          /\ after[1].serial = l.entry.before[1].serial
                          /\ after[1].serializer = l.entry.before[1].serializer]_vars

\* an entry with both bits of cmd set deleted a live entity
C28_Witness ==
    /\ pe_log.cmd = 3
    /\ pe_log.kind = "delete"
    /\ pe_log.entry.before # None

C29_NotLastReached ==
    /\ pe_log.kind \in {"create", "update"}
    /\ ~pe_log.entry.last
    /\ pe_log.entry.before # None
    /\ pe_log.entry.before[1].item = UnknownEntity
    /\ pe_log.dispatched # <<>>

----------------------------------------------------------------------------
(* the Pop* opcodes inside a call of read_field_paths *)

\* opcodes 27 .. 35: PopOnePlusOne, PopOnePlusN, the four PopAllButOne*, and
\* PopNPlusOne, PopNPlusN, PopNAndNonTopographical
PopOps == 27 .. 35

\* the pop count k of a Pop* opcode run on path p with operands o
PopCountOf(op, o, p) ==
    IF op \in {27, 28} THEN 1
    ELSE IF op \in 29 .. 32 THEN p.last
    ELSE o.n

\* C26: for every pop count k decoded from the stream (counts larger than
\* `last` and counts >= 256 included), a Pop* opcode sets `last` to
\* max(0, last - k) and leaves every path slot above the new `last` zero.
C26_PopSaturates ==
    [][\A op \in PopOps : \A o \in Operands(op) :
          FpDecodeOp(op, o) =>
              LET k == PopCountOf(op, o, fp_path)
                  new_last == IF fp_path.last >= k THEN fp_path.last - k ELSE 0
              IN  /\ fp_path'.last = new_last
                  /\ \A i \in (new_last + 1) .. (FieldPathSlots - 1) :
                        fp_path'.path[i + 1] = 0]_vars

----------------------------------------------------------------------------
(* the Huffman tree built merge by merge, then one call of read_field_paths *)

\* the streams of MaxBits bits or fewer are all fed to the call
MaxBits == 6

\* the code of an opcode: the bits of the walk from `node` to its leaf
RECURSIVE HuffmanCode(_, _)
HuffmanCode(node, op) ==
    IF node.op # None THEN (IF node.op[1] = op THEN {<<>>} ELSE {})
    ELSE {<<0>> \o c : c \in HuffmanCode(node.left[1], op)}
            \cup {<<1>> \o c : c \in HuffmanCode(node.right[1], op)}

Terminator == CHOOSE c \in HuffmanCode(FIELD_PATH_HUFFMAN, FieldPathEncodeFinish) : TRUE

\* every stream of up to MaxBits bits; the five ones of the fixture followed
\* by 1,0; PushOneLeftDeltaNRightNonZeroPack6Bits with its two operands and
\* PlusN with a two-bit operand, each followed by 1,0
HuffmanReaders ==
    UNION {[1 .. n -> {0, 1}] : n \in 0 .. MaxBits}
        \cup {<<1, 1, 1, 1, 1, 1, 0>>,
              <<1, 1, 1, 1, 1, 0, 0, 0, 1, 0, 1, 0>>,
              <<1, 1, 0, 1, 0, 1, 1, 0, 1, 0>>}

HuffmanInit == ParserStart /\ ListStart /\ FpInit /\ DecStart /\ UnitStart

HuffmanNext ==
    \/ HuffmanMerge
    \/ \E reader \in HuffmanReaders : HuffmanRead(reader)

SpecHuffman == HuffmanInit /\ [][HuffmanNext]_vars

\* the leaves carry the weight of their opcode, a zero weight counting as 1;
\* the merged nodes carry the sum of their children and a creation number
\* from 40 on
NodesWellFormed ==
    \A t \in trees :
        IF t.op # None
        THEN /\ t.value = t.op[1]
             /\ t.weight = IF FieldPathWeights[t.value + 1] = 0 THEN 1
                           ELSE FieldPathWeights[t.value + 1]
        ELSE /\ t.value >= 40 /\ t.value < huff_n
             /\ t.weight = t.left[1].weight + t.right[1].weight

\* the merge made last removed a, then b, each the first of what was left
MergeTook(first(_, _)) ==
    huff_log.a # None =>
        LET a == huff_log.a[1]
            b == huff_log.b[1]
        IN  /\ \A x \in huff_log.before \ {a} : first(a, x)
            /\ \A x \in huff_log.before \ {a, b} : first(b, x)

SmallerValueFirst(x, y) ==
    x.weight < y.weight \/ (x.weight = y.weight /\ x.value < y.value)

LargerValueFirst(x, y) ==
    x.weight < y.weight \/ (x.weight = y.weight /\ x.value > y.value)

Snapshots == [i \in 1 .. Len(paths) |-> to_slice(paths[i])]

\* C25 as stated: with the tree built from the fixed weight table,
\* read_field_paths started on a fresh path and fed the bits 1,1,1,1,1 decodes
\* PlusOne and records the snapshot [0]; fed the terminator's code next, it
\* returns Ok with exactly that one snapshot.
C25_FiveOnesIsPlusOne ==
    /\ huff_reader.bits = <<1, 1, 1, 1, 1>> =>
          huff_reader.ops = <<0>> /\ Snapshots = <<<<0>>>>
    /\ (Cardinality(trees) = 1 /\ huff_reader.bits = <<1, 1, 1, 1, 1>> \o Terminator) =>
          fp_pc = "ok" /\ huff_reader.ops = <<0, FieldPathEncodeFinish>>
             /\ Snapshots = <<<<0>>>>

\* C25, amended: the code of PlusOne is the single bit 0 and the code of the
\* terminator is 1,0.  Fed the bit 0, read_field_paths decodes PlusOne and
\* records the snapshot [0]; fed 1,0 next, it returns Ok with exactly that one
\* snapshot.  Fed 1,1,1,1,1 it reaches PushOneLeftDeltaNRightNonZeroPack6Bits
\* after four bits, whose operands run out: it returns an error and records
\* no snapshot.  The first opcode of a call is PlusOne iff the first bit is 0.
C25_ZeroIsPlusOne ==
    /\ Cardinality(trees) = 1 =>
          /\ HuffmanCode(FIELD_PATH_HUFFMAN, 0) = {<<0>>}
          /\ Terminator = <<1, 0>>
    /\ huff_reader.bits = <<0>> =>
          fp_pc = "err" /\ huff_reader.ops = <<0>> /\ Snapshots = <<<<0>>>>
    /\ huff_reader.bits = <<0, 1, 0>> =>
          fp_pc = "ok" /\ huff_reader.ops = <<0, FieldPathEncodeFinish>>
             /\ Snapshots = <<<<0>>>>
    /\ huff_reader.bits = <<1, 1, 1, 1, 1>> =>
          fp_pc = "err" /\ huff_reader.ops = <<>> /\ paths = <<>>
    /\ huff_reader.ops # <<>> =>
          (huff_reader.ops[1] = 0 <=> huff_reader.bits[1] = 0)

\* the call fed 0,1,0 has returned Ok
C25_Witness ==
    /\ huff_reader.bits = <<0, 1, 0>>
    /\ fp_pc = "ok"
    /\ Len(paths) = 1

----------------------------------------------------------------------------
(* the constructor called once on an input *)

\* the bytes put in place of one byte of the stamp
WrongBytes == {0, 32, 255}

\* the stamp, and the stamp with one byte replaced
Stamps == {DemoMagic} \cup {[DemoMagic EXCEPT ![i] = b] : i \in 1 .. 8, b \in WrongBytes}

\* bytes 8..16 of the input: the offset and the padding
HeaderTails ==
    {<<0, 0, 0, 0, 0, 0, 0, 0>>, <<255, 255, 255, 255, 255, 255, 255, 255>>,
     <<18, 52, 86, 120, 0, 0, 0, 0>>, DemoMagic}

\* what follows the header
Bodies == {<<>>, <<1, 2>>}

\* inputs of 16 bytes or more, and inputs cut short
NewInputs ==
    {s \o t \o b : s \in Stamps, t \in HeaderTails, b \in Bodies}
        \cup {SubSeq(DemoMagic \o t, 1, n) : t \in HeaderTails, n \in {0, 7, 8, 15}}

NewInit == ParserStart /\ ListStart /\ FpInit /\ DecStart /\ UnitStart

NewNext == \E input \in NewInputs : New(input)

SpecNew == NewInit /\ [][NewNext]_vars

\* C27: constructing a parser on an input of at least 16 bytes succeeds iff
\* the first 8 bytes equal "PBDEMS2\0", whatever bytes 8..16 are; with any
\* other first 8 bytes it fails with the error "Invalid CS2 demo magic" and
\* no parser is returned.
C27_MagicDecides ==
    (constructed.called /\ Len(constructed.input) >= HeaderLen) =>
        IF SubSeq(constructed.input, 1, 8) = DemoMagic
        THEN constructed.out.ret = "Ok" /\ constructed.out.parser # None
        ELSE /\ constructed.out.ret = "Err"
             /\ constructed.out.err = "Invalid CS2 demo magic"
             /\ constructed.out.parser = None

\* the stamp with a wrong last byte was refused, whatever follows
C27_Witness ==
    /\ constructed.called
    /\ Len(constructed.input) >= HeaderLen
    /\ SubSeq(constructed.input, 1, 7) = SubSeq(DemoMagic, 1, 7)
    /\ constructed.input[8] = 255
    /\ constructed.out.ret = "Err"

----------------------------------------------------------------------------
(* send tables whose fields name class serializers *)

\* msg.fields: a plain field; a field that names a class serializer (none, a
\* class of the message, a class no entry builds, a symbol the table does not
\* hold); a polymorphic field over candidates, with or without a class
\* serializer name of its own
RefNames == {None, Some("CA"), Some("CX"), Some(NoSymbol)}

RefCandidates == {<<>>, <<Some("CA"), Some("CB")>>, <<None>>, <<Some("CX")>>}

RefFields ==
    {<<FieldPb(Some("int32"), Some("m_iHealth"), None, <<>>),
       FieldPb(Some("CHandle"), Some("m_hOwner"), n, <<>>),
       FieldPb(Some("CBody*"), Some("m_pBody"), pn, c)>> :
        n \in RefNames, pn \in {None, Some("CX")}, c \in RefCandidates}

\* the fields_index of a class: the last names a field the message lacks
RefIndex == {<<0>>, <<0, 1>>, <<2, 1>>, <<0, 3>>}

\* one class, or two in either order
RefSerializers ==
    {<<FlatSerializer(Some("CA"), i)>> : i \in RefIndex}
        \cup {<<FlatSerializer(Some(n[1]), i), FlatSerializer(Some(n[2]), j)>> :
                  n \in {<<"CA", "CB">>, <<"CB", "CA">>}, i \in RefIndex, j \in RefIndex}

RefSendTablesMsgs ==
    {[data |-> TRUE, fields |-> f, serializers |-> ss] : f \in RefFields, ss \in RefSerializers}
        \cup SendTablesMsgs

SendTablesInit == ParserStart /\ ListStart /\ FpInit /\ DecStart /\ UnitStart

SendTablesNext ==
    \E msg \in RefSendTablesMsgs : HandleDemoSendTables(msg) /\ UNCHANGED frameVars

SpecSendTables == SendTablesInit /\ [][SendTablesNext]_vars

\* the names of the classes built by the entries before entry k
BuiltBefore(msg, k) ==
    {msg.serializers[j].name[1] : j \in {i \in 1 .. k - 1 : msg.serializers[i].name # None}}

\* every name a field carries: its class serializer and its candidates
NamesOf(field_pb) ==
    {symbol(x)[1] : x \in {y \in {field_pb.field_serializer_name_sym}
                                  \cup Elements(field_pb.polymorphic_types) :
                               symbol(y) # None}}

\* the names the build of a field looks up: the candidates of a polymorphic
\* field, the class serializer of any other
NamesUsed(field_pb) ==
    IF field_pb.polymorphic_types # <<>>
    THEN {symbol(x)[1] : x \in {y \in Elements(field_pb.polymorphic_types) : symbol(y) # None}}
    ELSE NamesOf(field_pb)

\* the fields of the message that entry k lists
ListedFields(msg, k) ==
    {msg.fields[i + 1] :
        i \in {x \in Elements(msg.serializers[k].fields_index) : x >= 0 /\ x < Len(msg.fields)}}

\* some field of the message names a class that no entry builds, or a field
\* listed by an entry names a class that no earlier entry builds
NamesUnbuilt(msg) ==
    \/ \E i \in DOMAIN msg.fields :
          NamesOf(msg.fields[i]) \ BuiltBefore(msg, Len(msg.serializers) + 1) # {}
    \/ \E k \in DOMAIN msg.serializers : \E f \in ListedFields(msg, k) :
          NamesOf(f) \ BuiltBefore(msg, k) # {}

\* a field listed by an entry has its build look up a class that no earlier
\* entry builds
LooksUpUnbuilt(msg) ==
    \E k \in DOMAIN msg.serializers : \E f \in ListedFields(msg, k) :
        NamesUsed(f) \ BuiltBefore(msg, k) # {}

\* the call that built the serializers of the message returned an error and
\* installed nothing
Refused == send_tables_log[1].result # "" /\ send_tables_log[1].installed = EmptyFn

\* C30 as stated: if a field of a send-tables message names a field
\* serializer, or a polymorphic candidate, that has not been built by an
\* earlier serializer entry of the same message, handle_demo_send_tables
\* returns an error and installs no decoders.
C30_UnbuiltNameRefused ==
    (send_tables_log # None /\ NamesUnbuilt(send_tables_log[1].msg)) => Refused

\* C30, amended: if a field listed in the fields_index of a serializer entry
\* names, as its field serializer when it has no polymorphic candidates or as
\* one of its polymorphic candidates otherwise, a class that no earlier
\* serializer entry of the same message built, handle_demo_send_tables
\* returns an error and installs no decoders.  A name carried by a field that
\* no entry lists, and the field-serializer name of a polymorphic field, are
\* not looked up.
C30_LookedUpNameRefused ==
    (send_tables_log # None /\ LooksUpUnbuilt(send_tables_log[1].msg)) => Refused

\* the second entry of a message listed a field that names a class no entry
\* builds: the message was refused
C30_Witness ==
    /\ send_tables_log # None
    /\ Len(send_tables_log[1].msg.serializers) = 2
    /\ send_tables_log[1].msg.serializers[1].fields_index = <<0>>
    /\ send_tables_log[1].msg.serializers[2] = FlatSerializer(Some("CB"), <<0, 1>>)
    /\ send_tables_log[1].msg.fields[2].field_serializer_name_sym = Some("CX")
    /\ result = "Missing serializer for field"
    /\ entity_serializers = EmptyFn

----------------------------------------------------------------------------
(* bit.rs: the reads that take a fast path on a byte boundary *)

\* A reader is carried as the bits it has left; the data is a whole number
\* of bytes, so the reader stands on a byte boundary when the number of bits
\* left is a multiple of 8.
byte_aligned(reader) == Len(reader) % 8 = 0

\* BitRead::read_bit
read_bit(reader) == read_unsigned(1, reader)

\* BitRead::read_bytes into a buffer of n bytes: the bytes in order, each
\* with its lowest bit first
read_bytes(n, reader) ==
    IF Len(reader) < 8 * n THEN [ok |-> FALSE, v |-> <<>>, rest |-> <<>>]
    ELSE [ok |-> TRUE,
          v |-> [i \in 1 .. n |-> read_var(SubSeq(reader, 8 * i - 7, 8 * i), 8)],
          rest |-> SubSeq(reader, 8 * n + 1, Len(reader))]

\* read_u8 on a byte boundary: read_bytes into a buffer of one byte
read_u8_aligned(reader) ==
    LET buf == read_bytes(1, reader)
    IN  IF buf.ok THEN [ok |-> TRUE, v |-> buf.v[1], rest |-> buf.rest]
        ELSE [ok |-> FALSE, v |-> 0, rest |-> <<>>]

\* read_u8 elsewhere: read_unsigned::<8, u8>
read_u8_bits(reader) == read_unsigned(8, reader)

read_u8(reader) ==
    IF byte_aligned(reader) THEN read_u8_aligned(reader) ELSE read_u8_bits(reader)

\* impl_read_varint!, the loop taken on a byte boundary: a byte per turn
RECURSIVE read_varint_aligned(_, _, _, _, _)
read_varint_aligned(width, reader, value, shift, overflow_checks) ==
    LET b == read_u8(reader)
    IN  IF ~b.ok THEN [kind |-> "err", value |-> {}, rest |-> <<>>]
        ELSE IF shift >= width /\ overflow_checks
        THEN [kind |-> "panic", value |-> {}, rest |-> <<>>]
        ELSE IF b.v < 128
        THEN [kind |-> "ok", value |-> value \cup Shl(b.v, shift % width, width),
              rest |-> b.rest]
        ELSE read_varint_aligned(width, b.rest,
                                 value \cup Shl(b.v, shift % width, width),
                                 shift + 7, overflow_checks)

\* a faulty read_varint_bits: the flag is read before the seven value bits
RECURSIVE read_varint_bits_flag_first(_, _, _, _, _)
read_varint_bits_flag_first(width, reader, value, shift, overflow_checks) ==
    LET flag == read_bit(reader)
        v == read_unsigned(7, flag.rest)
    IN  IF ~flag.ok \/ ~v.ok THEN [kind |-> "err", value |-> {}, rest |-> <<>>]
        ELSE IF shift >= width /\ overflow_checks
        THEN [kind |-> "panic", value |-> {}, rest |-> <<>>]
        ELSE IF flag.v = 0
        THEN [kind |-> "ok", value |-> value \cup Shl(v.v, shift % width, width),
              rest |-> v.rest]
        ELSE read_varint_bits_flag_first(width, v.rest,
                                         value \cup Shl(v.v, shift % width, width),
                                         shift + 7, overflow_checks)

\* impl_read_varint!, the loop taken elsewhere: seven value bits, then the
\* flag bit, per turn
RECURSIVE read_varint_bits(_, _, _, _, _)
read_varint_bits(width, reader, value, shift, overflow_checks) ==
    LET v == read_unsigned(7, reader)
        flag == read_bit(v.rest)
    IN  IF ~v.ok \/ ~flag.ok THEN [kind |-> "err", value |-> {}, rest |-> <<>>]
        ELSE IF shift >= width /\ overflow_checks
        THEN [kind |-> "panic", value |-> {}, rest |-> <<>>]
        ELSE IF flag.v = 0
        THEN [kind |-> "ok", value |-> value \cup Shl(v.v, shift % width, width),
              rest |-> flag.rest]
        ELSE read_varint_bits(width, flag.rest,
                              value \cup Shl(v.v, shift % width, width),
                              shift + 7, overflow_checks)

\* impl_read_varint!, the unsigned function on a reader of bits
read_varint_of(width, reader, overflow_checks) ==
    IF byte_aligned(reader)
    THEN read_varint_aligned(width, reader, {}, 0, overflow_checks)
    ELSE read_varint_bits(width, reader, {}, 0, overflow_checks)

read_varint_u32(reader, overflow_checks) == read_varint_of(32, reader, overflow_checks)

read_varint_u64(reader, overflow_checks) == read_varint_of(64, reader, overflow_checks)

\* the eight bits of a byte as the set of the positions that are 1
ByteBits(v) == {i \in 0 .. 7 : (v \div Pow2(i)) % 2 = 1}

\* what read_u8 returns, in the form of the varint reads
U8Out(r) ==
    [kind |-> IF r.ok THEN "ok" ELSE "err", value |-> IF r.ok THEN ByteBits(r.v) ELSE {},
     rest |-> r.rest]

\* the branch of `fn` for a byte boundary, applied to `reader`
AlignedBranch(fn, reader, overflow_checks) ==
    CASE fn = "read_u8" -> U8Out(read_u8_aligned(reader))
      [] fn = "read_varint_u32" -> read_varint_aligned(32, reader, {}, 0, overflow_checks)
      [] fn = "read_varint_u64" -> read_varint_aligned(64, reader, {}, 0, overflow_checks)

\* the other branch of `fn`, applied to `reader`
BitsBranch(fn, reader, overflow_checks) ==
    CASE fn = "read_u8" -> U8Out(read_u8_bits(reader))
      [] fn = "read_varint_u32" -> read_varint_bits(32, reader, {}, 0, overflow_checks)
      [] fn = "read_varint_u64" -> read_varint_bits(64, reader, {}, 0, overflow_checks)

\* one call of read_u8, read_varint_u32 or read_varint_u64 on a reader that
\* has the bits `reader` left; the history keeps what each branch makes of
\* the same bits
ReadBits(fn, reader, overflow_checks) ==
    /\ bits_log' =
           [fn |-> fn, reader |-> reader, overflow_checks |-> overflow_checks,
            aligned |-> AlignedBranch(fn, reader, overflow_checks),
            bits |-> BitsBranch(fn, reader, overflow_checks),
            out |-> CASE fn = "read_u8" -> U8Out(read_u8(reader))
                      [] fn = "read_varint_u32" -> read_varint_u32(reader, overflow_checks)
                      [] fn = "read_varint_u64" -> read_varint_u64(reader, overflow_checks)]
    /\ UNCHANGED <<varint_log, quantized, quant_log, trees, huff_n, huff_log, huff_reader,
                   constructed, send_tables_log, table_log, own_table,
                   event_manager, dispatch_log, index_log, skip_log>>
    /\ UNCHANGED <<listVars, fpVars, parserVars, frameVars, decVars>>

----------------------------------------------------------------------------
(* read_u8 and the unsigned varints on and off a byte boundary *)

\* the bits of a byte string, each byte with its lowest bit first
RECURSIVE BytesToBits(_)
BytesToBits(bytes) ==
    IF bytes = <<>> THEN <<>>
    ELSE [i \in 1 .. 8 |-> (Head(bytes) \div Pow2(i - 1)) % 2] \o BytesToBits(Tail(bytes))

\* every bit string of up to MaxReadBits bits
MaxReadBits == 9

BitStrings(n) == UNION {[1 .. k -> {0, 1}] : k \in 0 .. n}

\* what is left in the reader after the varint: nothing, or a part of a byte
ReaderTails == {<<>>, <<1>>, <<0, 1, 1, 0, 1, 0, 1>>}

\* the readers: the short bit strings, and the varints of the signed reads
\* followed by a tail
ReadInputs ==
    BitStrings(MaxReadBits)
    \cup {BytesToBits(b) \o t : b \in VarintInputs, t \in ReaderTails}

BitsInit == ParserStart /\ ListStart /\ FpInit /\ DecStart /\ UnitStart

\* each behaviour makes one read: a read depends on nothing but its reader
BitsNext ==
    /\ bits_log = NoBitsLog
    /\ \E fn \in {"read_u8", "read_varint_u32", "read_varint_u64"}, reader \in ReadInputs,
          overflow_checks \in BOOLEAN :
           ReadBits(fn, reader, overflow_checks)

SpecBits == BitsInit /\ [][BitsNext]_vars

\* C33: for every bit sequence, the branch of read_u8, read_varint_u32 and
\* read_varint_u64 taken on a byte boundary and the bit-accurate branch end
\* the same way, and when they return a value they return the same value and
\* leave the same bits in the reader; the call itself returns that result.
C33_BranchesAgree ==
    bits_log.fn # "" =>
        /\ bits_log.aligned.kind = bits_log.bits.kind
        /\ bits_log.out.kind = bits_log.bits.kind
        /\ bits_log.bits.kind = "ok" =>
              /\ bits_log.aligned.value = bits_log.bits.value
              /\ bits_log.aligned.rest = bits_log.bits.rest
              /\ bits_log.out.value = bits_log.bits.value
              /\ bits_log.out.rest = bits_log.bits.rest

\* a varint of ten bytes read off a byte boundary: the largest u64, with
\* bits left in the reader
C33_Witness ==
    /\ bits_log.fn = "read_varint_u64"
    /\ ~byte_aligned(bits_log.reader)
    /\ bits_log.out.kind = "ok"
    /\ bits_log.out.value = 0 .. 63
    /\ Len(bits_log.out.rest) = 7
    /\ Len(bits_log.reader) = 87

\* a byte read on a byte boundary
C33_AlignedReached ==
    /\ bits_log.fn = "read_u8"
    /\ byte_aligned(bits_log.reader)
    /\ bits_log.out.kind = "ok"
    /\ bits_log.out.value = {0, 7}

----------------------------------------------------------------------------
(* string_table.rs: BaselineStringTableParser::update over the bits of its data *)

Letters ==
    <<"a", "b", "c", "d", "e", "f", "g", "h", "i", "j", "k", "l", "m", "n", "o", "p",
      "q", "r", "s", "t", "u", "v", "w", "x", "y", "z">>

\* String::from_utf8_lossy over digits and lower-case letters; a byte that
\* stands alone with its top bit set becomes U+FFFD.  The readers below hold
\* no other byte in a string.
from_utf8_lossy(s) ==
    [i \in 1 .. Len(s) |->
        IF s[i] \in 48 .. 57 THEN Digits[s[i] - 47]
        ELSE IF s[i] \in 97 .. 122 THEN Letters[s[i] - 96]
        ELSE "U+FFFD"]

\* read_null_terminated_string: `s` holds the bytes read so far
RECURSIVE read_null_terminated_string(_, _)
read_null_terminated_string(reader, s) ==
    LET c == read_u8(reader)
    IN  IF ~c.ok THEN [ok |-> FALSE, v |-> <<>>, rest |-> <<>>]
        ELSE IF c.v = 0 THEN [ok |-> TRUE, v |-> from_utf8_lossy(s), rest |-> c.rest]
        ELSE read_null_terminated_string(c.rest, Append(s, c.v))

\* BaselineStringTableParser
StringTableParser(user_data_fixed_size, user_data_size, flags, using_varint_bitcounts) ==
    [user_data_fixed_size |-> user_data_fixed_size, user_data_size |-> user_data_size,
     flags |-> flags, using_varint_bitcounts |-> using_varint_bitcounts]

\* snap::raw::Decoder::decompress_vec for a stream that is empty or holds its
\* length (below 61) and one literal of that length; the readers below hold
\* no stream with a copy element, which is refused here
decompress_vec(buf) ==
    IF buf = <<>> \/ buf = <<0>> THEN [ok |-> TRUE, v |-> <<>>]
    ELSE IF /\ Len(buf) >= 3
            /\ buf[1] \in 1 .. 60
            /\ buf[2] = 4 * (buf[1] - 1)
            /\ Len(buf) = buf[1] + 2
    THEN [ok |-> TRUE, v |-> SubSeq(buf, 3, Len(buf))]
    ELSE [ok |-> FALSE, v |-> <<>>]

ReadFailed(kind, err) == [kind |-> kind, err |-> err, v |-> None, rest |-> <<>>]

EndOfFile == ReadFailed("err", "unexpected end of file")

ReadOk(v, rest) == [kind |-> "ok", err |-> "", v |-> v, rest |-> rest]

\* One turn of the loop of update, from its last read back to its first: each
\* stage receives what the reads before it returned.

\* Some(buf), or the decompressed buf
ValueFromBuf(compressed, buf) ==
    IF ~buf.ok THEN EndOfFile
    ELSE IF ~compressed THEN ReadOk(Some(buf.v), buf.rest)
    ELSE IF ~decompress_vec(buf.v).ok
    THEN ReadFailed("err", "Failed to decompress string table")
    ELSE ReadOk(Some(decompress_vec(buf.v).v), buf.rest)

\* the buffer of bit_size bits: whole bytes, then the bits of a last byte
BufFromBytes(bit_size, whole) ==
    IF ~whole.ok \/ Len(whole.rest) < bit_size % 8
    THEN [ok |-> FALSE, v |-> <<>>, rest |-> <<>>]
    ELSE [ok |-> TRUE,
          rest |-> SubSeq(whole.rest, (bit_size % 8) + 1, Len(whole.rest)),
          v |-> IF bit_size % 8 > 0
                THEN Append(whole.v, read_var(whole.rest, bit_size % 8))
                ELSE whole.v]

read_buf(bit_size, reader) == BufFromBytes(bit_size, read_bytes(bit_size \div 8, reader))

\* (count * 8) as usize: the product of two u32 panics in a build with
\* overflow checks and wraps in one without; a buffer longer than the data
\* cannot be filled
ValueFromCount(compressed, count, wide, overflow_checks) ==
    IF ~count.ok THEN EndOfFile
    ELSE IF ~wide /\ count.v >= Pow2(29) /\ overflow_checks
    THEN ReadFailed("panic", "attempt to multiply with overflow")
    ELSE IF (count.v % Pow2(29)) * 8 > Len(count.rest) THEN EndOfFile
    ELSE ValueFromBuf(compressed, read_buf((count.v % Pow2(29)) * 8, count.rest))

\* the compression bit was read, or there is none
ValueFromCompressed(parser, compressed, overflow_checks) ==
    IF ~compressed.ok THEN EndOfFile
    ELSE ValueFromCount(compressed.v = 1,
                        IF parser.using_varint_bitcounts
                        THEN read_ubit_int(compressed.rest)
                        ELSE read_unsigned(17, compressed.rest),
                        ~parser.using_varint_bitcounts, overflow_checks)

\* the bit that says whether the entry has a value was read
ValueFromHas(parser, has, overflow_checks) ==
    IF ~has.ok THEN EndOfFile
    ELSE IF has.v = 0 THEN ReadOk(None, has.rest)
    ELSE IF parser.user_data_fixed_size
    THEN ValueFromBuf(FALSE, read_buf(parser.user_data_size, has.rest))
    ELSE ValueFromCompressed(parser,
                             IF parser.flags % 2 = 1 THEN read_bit(has.rest)
                             ELSE [ok |-> TRUE, v |-> 0, rest |-> has.rest],
                             overflow_checks)

\* let value = if r.read_bit()? { .. } else { None }
read_entry_value(parser, reader, overflow_checks) ==
    ValueFromHas(parser, read_bit(reader), overflow_checks)

\* the string that ends the key was read
KeyFromString(hist, pos, size, str) ==
    IF ~str.ok THEN EndOfFile
    ELSE ReadOk(Some([hist |-> hist, pos |-> pos, size |-> size, str |-> str.v]), str.rest)

\* the size in the history of keys was read
KeyFromSize(pos, size) ==
    IF ~size.ok THEN EndOfFile
    ELSE KeyFromString(TRUE, pos, size.v, read_null_terminated_string(size.rest, <<>>))

\* the position in the history of keys was read
KeyFromPos(pos) ==
    IF ~pos.ok THEN EndOfFile ELSE KeyFromSize(pos.v, read_unsigned(5, pos.rest))

\* the bit that says whether the key is built from the history was read
KeyFromHist(hist) ==
    IF ~hist.ok THEN EndOfFile
    ELSE IF hist.v = 1 THEN KeyFromPos(read_unsigned(5, hist.rest))
    ELSE KeyFromString(FALSE, 0, 0, read_null_terminated_string(hist.rest, <<>>))

\* the bit that says whether the entry has a key was read
KeyFromHas(has) ==
    IF ~has.ok THEN EndOfFile
    ELSE IF has.v = 0 THEN ReadOk(None, has.rest)
    ELSE KeyFromHist(read_bit(has.rest))

\* let key = if r.read_bit()? { .. } else { None }: the key as it is read,
\* plain or a position and a size in the history of keys and a suffix
read_entry_key(reader) == KeyFromHas(read_bit(reader))

\* the value was read
EntryFromValue(incr, index, key, value) ==
    IF value.kind # "ok" THEN value
    ELSE ReadOk(Some([incr |-> incr, index |-> index, key |-> key, value |-> value.v]),
                value.rest)

\* a faulty EntryFromKey: the value of an entry without a key is not read
EntryFromKey_value_of_keyed(parser, incr, index, key, overflow_checks) ==
    IF key.kind # "ok" THEN key
    ELSE IF key.v = None THEN EntryFromValue(incr, index, key.v, ReadOk(None, key.rest))
    ELSE EntryFromValue(incr, index, key.v,
                        read_entry_value(parser, key.rest, overflow_checks))

\* the key was read: the value is read whether the entry has a key or not
EntryFromKey(parser, incr, index, key, overflow_checks) ==
    IF key.kind # "ok" THEN key
    ELSE EntryFromValue(incr, index, key.v,
                        read_entry_value(parser, key.rest, overflow_checks))

\* idx = r.read_varint_u32()? as i32 + 1: the varint was read
EntryFromIndex(parser, index, overflow_checks) ==
    IF index.kind = "panic" THEN ReadFailed("panic", "attempt to shift left with overflow")
    ELSE IF index.kind # "ok" THEN EndOfFile
    ELSE EntryFromKey(parser, FALSE, AsI32(index.value), read_entry_key(index.rest),
                      overflow_checks)

\* let incr = r.read_bit()?: the bit was read
EntryFromIncr(parser, incr, overflow_checks) ==
    IF ~incr.ok THEN EndOfFile
    ELSE IF incr.v = 1
    THEN EntryFromKey(parser, TRUE, 0, read_entry_key(incr.rest), overflow_checks)
    ELSE EntryFromIndex(parser, read_varint_u32(incr.rest, overflow_checks),
                        overflow_checks)

\* what one turn of the loop reads: the increment bit or the index, the key,
\* the value
read_entry(parser, reader, overflow_checks) ==
    EntryFromIncr(parser, read_bit(reader), overflow_checks)

\* the entries the loop reads before it ends or fails
RECURSIVE read_entries(_, _, _, _, _)
read_entries(parser, entries, reader, acc, overflow_checks) ==
    IF entries <= 0 THEN [err |-> "", entries |-> acc, rest |-> reader]
    ELSE LET e == read_entry(parser, reader, overflow_checks)
         IN  IF e.kind # "ok"
             THEN [err |-> IF e.kind = "panic" THEN "panic" ELSE e.err,
                   entries |-> acc, rest |-> <<>>]
             ELSE read_entries(parser, entries - 1, e.rest, Append(acc, e.v[1]),
                               overflow_checks)

\* StringTable::new
StringTable_new(parser) ==
    /\ own_table = None
    /\ own_table' = Some([parser |-> parser, table |-> NewStringTable, calls |-> 0])
    /\ UNCHANGED <<varint_log, quantized, quant_log, trees, huff_n, huff_log, huff_reader,
                   constructed, send_tables_log, table_log, bits_log,
                   event_manager, dispatch_log, index_log, skip_log>>
    /\ UNCHANGED <<listVars, fpVars, parserVars, frameVars, decVars>>

\* StringTable::update: the parser's update on the map and the cache of the
\* table; the entries read before a failure have taken effect
StringTable_update(entries, data, overflow_checks) ==
    /\ own_table # None
    /\ \E p \in {read_entries(own_table[1].parser, entries, data, <<>>, overflow_checks)} :
       \E u \in update(own_table[1].table, {}, p.entries, 0, <<>>, <<>>) :
           /\ own_table' = Some([own_table[1] EXCEPT !.table = u.table])
           /\ table_log' = [called |-> TRUE, demo |-> <<>>, entries |-> entries,
                            data |-> data,
                            before |-> own_table[1].table, read |-> p.entries,
                            steps |-> u.steps, ret |-> p.err, rest |-> p.rest]
    /\ UNCHANGED <<varint_log, quantized, quant_log, trees, huff_n, huff_log, huff_reader,
                   constructed, send_tables_log, bits_log,
                   event_manager, dispatch_log, index_log, skip_log>>
    /\ UNCHANGED <<listVars, fpVars, parserVars, frameVars, decVars>>

\* handle_demo_string_tables for the items of the table: insert for every
\* item with a name, with the position of the item as its index
StringTable_insert_items(items) ==
    /\ own_table # None
    /\ own_table' = Some([own_table[1] EXCEPT
                             !.table = insert_items([table |-> @, written |-> {}],
                                                    items, 0).table,
                             !.calls = @ + 1])
    /\ table_log' = [NoTableLog EXCEPT !.demo = items]
    /\ UNCHANGED <<varint_log, quantized, quant_log, trees, huff_n, huff_log, huff_reader,
                   constructed, send_tables_log, bits_log,
                   event_manager, dispatch_log, index_log, skip_log>>
    /\ UNCHANGED <<listVars, fpVars, parserVars, frameVars, decVars>>

\* StringTableUpdatable::insert on the table
StringTable_insert_call(key, index, value) ==
    /\ own_table # None
    /\ own_table' = Some([own_table[1] EXCEPT
                             !.table = StringTable_insert(@, key, index, value),
                             !.calls = @ + 1])
    /\ table_log' = NoTableLog
    /\ UNCHANGED <<varint_log, quantized, quant_log, trees, huff_n, huff_log, huff_reader,
                   constructed, send_tables_log, bits_log,
                   event_manager, dispatch_log, index_log, skip_log>>
    /\ UNCHANGED <<listVars, fpVars, parserVars, frameVars, decVars>>

\* StringTable::put_cache
StringTable_put_cache(key, value) ==
    /\ own_table # None
    /\ own_table' = Some([own_table[1] EXCEPT !.table = put_cache(@, key, value),
                                             !.calls = @ + 1])
    /\ table_log' = NoTableLog
    /\ UNCHANGED <<varint_log, quantized, quant_log, trees, huff_n, huff_log, huff_reader,
                   constructed, send_tables_log, bits_log,
                   event_manager, dispatch_log, index_log, skip_log>>
    /\ UNCHANGED <<listVars, fpVars, parserVars, frameVars, decVars>>

----------------------------------------------------------------------------
(* A string table driven by arbitrary update, insert and put_cache calls *)

\* the k low bits of v, lowest first
ToBits(v, k) == [i \in 1 .. k |-> (v \div Pow2(i - 1)) % 2]

\* the byte of a digit or a lower-case letter
CharByte(c) ==
    IF \E d \in 1 .. 10 : Digits[d] = c THEN 47 + (CHOOSE d \in 1 .. 10 : Digits[d] = c)
    ELSE 96 + (CHOOSE l \in 1 .. 26 : Letters[l] = c)

\* a string and its terminating zero
StringBits(str) == BytesToBits([i \in 1 .. Len(str) |-> CharByte(str[i])] \o <<0>>)

\* the bits of a value of bit_size bits
RECURSIVE BufBits(_, _)
BufBits(buf, bit_size) ==
    IF bit_size = 0 THEN <<>>
    ELSE IF bit_size < 8 THEN ToBits(Head(buf), bit_size)
    ELSE ToBits(Head(buf), 8) \o BufBits(Tail(buf), bit_size - 8)

\* the bits of one entry for a parser: an index below 128 is a varint of one
\* byte, a count below 16 a read_ubit_int of six bits
EntryBits(parser, e) ==
    (IF e.incr THEN <<1>> ELSE <<0>> \o ToBits(e.index, 8))
    \o (IF e.key = None THEN <<0>>
        ELSE <<1>> \o (IF e.key[1].hist
                       THEN <<1>> \o ToBits(e.key[1].pos, 5) \o ToBits(e.key[1].size, 5)
                       ELSE <<0>>)
                   \o StringBits(e.key[1].str))
    \o (IF e.value = None THEN <<0>>
        ELSE <<1>>
             \o (IF parser.user_data_fixed_size
                 THEN BufBits(e.value[1], parser.user_data_size)
                 ELSE (IF parser.flags % 2 = 1 THEN <<0>> ELSE <<>>)
                      \o (IF parser.using_varint_bitcounts
                          THEN ToBits(Len(e.value[1]), 6)
                          ELSE ToBits(Len(e.value[1]), 17))
                      \o BufBits(e.value[1], 8 * Len(e.value[1]))))

RECURSIVE EntriesBits(_, _)
EntriesBits(parser, es) ==
    IF es = <<>> THEN <<>> ELSE EntryBits(parser, Head(es)) \o EntriesBits(parser, Tail(es))

\* the data of a message: whole bytes, the last one filled with zeros
PadToByte(bits) == bits \o [i \in 1 .. ((8 - (Len(bits) % 8)) % 8) |-> 0]

\* the parsers: counts as read_ubit_int, values of a fixed size of 12 bits,
\* counts of 17 bits behind a compression bit
TableParsers ==
    {StringTableParser(FALSE, 0, 0, TRUE), StringTableParser(TRUE, 12, 0, FALSE),
     StringTableParser(FALSE, 0, 1, FALSE)}

\* a value that fits the parser
TableValue(parser, b) == IF parser.user_data_fixed_size THEN <<b, 5>> ELSE <<b>>

KeyFromHistory(pos, size, str) == Some([hist |-> TRUE, pos |-> pos, size |-> size, str |-> str])

\* the entries a message holds: with a key, plain or built from the history,
\* and without one; with the next index or with an index of their own
SourceEntries(parser) ==
    {TableEntry(TRUE, 0, PlainKey(<<"a">>), Some(TableValue(parser, 7))),
     TableEntry(TRUE, 0, PlainKey(<<"b">>), None),
     TableEntry(TRUE, 0, KeyFromHistory(0, 1, <<"c">>), Some(TableValue(parser, 8))),
     TableEntry(TRUE, 0, None, Some(TableValue(parser, 9))),
     TableEntry(FALSE, 0, None, Some(TableValue(parser, 129))),
     TableEntry(FALSE, 4, None, None),
     TableEntry(FALSE, 4, PlainKey(<<"a">>), Some(TableValue(parser, 10)))}

\* the entries of one message
MaxTableEntries == 2

Sources(parser) == UNION {[1 .. k -> SourceEntries(parser)] : k \in 0 .. MaxTableEntries}

\* the calls of update: the data of a message and its number of entries, or
\* one entry more than the data holds, or data cut short by a byte
UpdateCalls(parser) ==
    {[entries |-> Len(src), data |-> PadToByte(EntriesBits(parser, src))] :
        src \in Sources(parser)}
    \cup {[entries |-> 2, data |-> PadToByte(EntryBits(parser, e))] :
             e \in SourceEntries(parser)}
    \cup {[entries |-> 1,
           data |-> SubSeq(PadToByte(EntryBits(parser, e)), 1,
                           Len(PadToByte(EntryBits(parser, e))) - 8)] :
             e \in SourceEntries(parser)}

\* the calls of update by parser
UpdateCallsOf == [parser \in TableParsers |-> UpdateCalls(parser)]

\* the items of the table in a CDemoStringTables message
DemoItem(str, data) == [str |-> str, data |-> data]

DemoItems ==
    {<<DemoItem(Some(<<"a">>), None)>>,
     <<DemoItem(Some(<<"a">>), Some(<<3>>)), DemoItem(Some(<<"d">>), None)>>,
     <<DemoItem(None, None), DemoItem(Some(<<"d">>), None)>>}

\* the calls of insert, put_cache and handle_demo_string_tables a table
\* receives after StringTable::new and before its update
MaxCalls == 2

StringTableInit == ParserStart /\ ListStart /\ FpInit /\ DecStart /\ UnitStart

StringTableNext ==
    \/ \E parser \in TableParsers : StringTable_new(parser)
    \/ /\ own_table # None
       /\ ~table_log.called
       /\ \/ \E c \in UpdateCallsOf[own_table[1].parser], overflow_checks \in BOOLEAN :
                StringTable_update(c.entries, c.data, overflow_checks)
          \/ /\ own_table[1].calls < MaxCalls
             /\ \/ \E key \in {<<"a">>, <<"d">>}, index \in {0, 1} :
                      StringTable_insert_call(key, index, None)
                \/ StringTable_put_cache(<<"a">>, "prototype")
                \/ \E items \in DemoItems : StringTable_insert_items(items)

SpecStringTable == StringTableInit /\ [][StringTableNext]_vars

----------------------------------------------------------------------------
(* An entry of an update that has no key and whose index no entry holds *)

\* the data of every message of a parser, with the entries it was built from
SourceData ==
    [parser \in TableParsers |->
        {[src |-> s, data |-> PadToByte(EntriesBits(parser, s))] : s \in Sources(parser)}]

\* the table before the j-th entry of the last update
TableBefore(j) == IF j = 1 THEN table_log.before ELSE table_log.steps[j - 1].table

\* the index before the j-th entry of the last update
IdxBefore(j) == IF j = 1 THEN 0 ELSE table_log.steps[j - 1].idx

\* the j-th entry of the last update had no key and no entry held its index
MissingKey(j) == table_log.read[j].key = None /\ table_log.steps[j].key = None

\* the j-th entry of the last update was stored under its key, with the index
\* the loop gave it and its value, and the prototype of the key was dropped
ProcessedNormally(j) ==
    /\ table_log.steps[j].key # None
    /\ table_log.steps[j].idx = IF table_log.read[j].incr THEN IdxBefore(j) + 1
                                ELSE table_log.read[j].index + 1
    /\ table_log.steps[j].table.map[table_log.steps[j].key[1]]
           = [index |-> table_log.steps[j].idx, value |-> table_log.read[j].value]
    /\ table_log.steps[j].key[1] \notin DOMAIN table_log.steps[j].table.cache

\* C31: an entry of a string table update that has no key and whose index no
\* entry of the table holds leaves the map and the prototype cache as they
\* were; its value bits are read all the same, so the entries of a message
\* are read back as they were written and less than a byte is left; the
\* entries with a key that follow it are stored; update returns Ok when the
\* data holds all the entries.
C31_MissingKeyIsSkipped ==
    table_log.called =>
        /\ Len(table_log.steps) = Len(table_log.read)
        /\ \A j \in 1 .. Len(table_log.read) :
              MissingKey(j) =>
                  /\ table_log.steps[j].table = TableBefore(j)
                  /\ \A m \in (j + 1) .. Len(table_log.read) :
                        table_log.read[m].key # None => ProcessedNormally(m)
        /\ own_table[1].table = TableBefore(Len(table_log.read) + 1)
        /\ Len(table_log.read) = table_log.entries => table_log.ret = ""
        /\ \A s \in SourceData[own_table[1].parser] :
              s.data = table_log.data /\ Len(s.src) = table_log.entries =>
                  /\ table_log.read = s.src
                  /\ Len(table_log.rest) < 8
                  /\ table_log.ret = ""

\* an update of a table with an entry and a cached prototype: its first entry
\* has a value and no key and index 1, which no entry holds; its second entry
\* has a key and was stored
C31_Witness ==
    /\ table_log.called
    /\ table_log.ret = ""
    /\ table_log.before.map # EmptyFn
    /\ table_log.before.cache # EmptyFn
    /\ Len(table_log.read) = 2
    /\ MissingKey(1)
    /\ table_log.read[1].value # None
    /\ table_log.steps[1].table = table_log.before
    /\ table_log.read[2].key # None
    /\ ProcessedNormally(2)
    /\ own_table[1].table # table_log.before

----------------------------------------------------------------------------
(* The index of an entry stored by update and by handle_demo_string_tables *)

\* the last call was handle_demo_string_tables, and item k of the table is
\* stored with index k - 1: items are counted from zero
DemoIsZeroBased ==
    \A k \in 1 .. Len(table_log.demo) :
        (/\ table_log.demo[k].str # None
         /\ \A m \in (k + 1) .. Len(table_log.demo) :
               table_log.demo[m].str # table_log.demo[k].str)
        => own_table[1].table.map[table_log.demo[k].str[1]].index = k - 1

\* every entry of the last update had the increment bit set
AllIncrement ==
    /\ table_log.called
    /\ table_log.read # <<>>
    /\ \A j \in 1 .. Len(table_log.read) : table_log.read[j].incr

\* update gives the k-th entry of such an update the index k: the index
\* starts at 0 and is incremented before the entry is stored
UpdateIsOneBased ==
    AllIncrement => \A k \in 1 .. Len(table_log.steps) : table_log.steps[k].idx = k

\* C39: the k-th entry of an update whose entries all have the increment bit
\* set gets the index handle_demo_string_tables gives the k-th item of a
\* table, k - 1.
C39_SameIndexOnBothPaths ==
    /\ DemoIsZeroBased
    /\ AllIncrement => \A k \in 1 .. Len(table_log.steps) : table_log.steps[k].idx = k - 1

\* the indices the code assigns on the two paths
C39_IndicesOfTheCode == DemoIsZeroBased /\ UpdateIsOneBased

\* key "d" was stored as the second item of a message, with index 1, and an
\* update whose first entry has the increment bit and no key replaced its
\* value: the first entry of the update has the index of the second item
C39_FirstEntryIsSecondItem ==
    /\ table_log.called
    /\ AllIncrement
    /\ table_log.read[1].key = None
    /\ table_log.steps[1].key = Some(<<"d">>)
    /\ table_log.before.map[<<"d">>].index = 1
    /\ <<"a">> \in DOMAIN table_log.before.map
    /\ table_log.before.map[<<"a">>].index = 0

----------------------------------------------------------------------------
(* event.rs: EventManager, EventDispatcher and the listeners of read_frame *)

\* EventDispatcher::new
NewEventDispatcher == [listeners |-> <<>>, next_listener_id |-> 0]

\* a listener: its id and what its on_event returns, "" for Ok(()) and the
\* message of its error otherwise
Listener(id, returns) == [id |-> id, returns |-> returns]

\* EventDispatcher::add_listener
add_listener(d, returns) ==
    [listeners |-> Append(d.listeners, Listener(d.next_listener_id, returns)),
     next_listener_id |-> d.next_listener_id + 1]

\* the state a listener is given: &CsDemoParserState
ParserState(t) == [tick |-> t, map_name |-> map_name]

\* one call of on_event
ListenerCall(l, event, state) == [id |-> l.id, event |-> event, state |-> state]

\* a faulty dispatch: every listener is called and the first error returned
RECURSIVE dispatch_all(_, _, _, _, _)
dispatch_all(listeners, event, state, calls, err) ==
    IF listeners = <<>> THEN [ret |-> err, calls |-> calls]
    ELSE dispatch_all(Tail(listeners), event, state,
                      Append(calls, ListenerCall(Head(listeners), event, state)),
                      IF err = "" THEN Head(listeners).returns ELSE err)

\* EventDispatcher::dispatch: listener.on_event(&event, state)? for the
\* listeners in the order of the vector
RECURSIVE dispatch(_, _, _, _, _)
dispatch(listeners, event, state, calls, err) ==
    IF listeners = <<>> THEN [ret |-> "", calls |-> calls]
    ELSE IF Head(listeners).returns # ""
    THEN [ret |-> Head(listeners).returns,
          calls |-> Append(calls, ListenerCall(Head(listeners), event, state))]
    ELSE dispatch(Tail(listeners), event, state,
                  Append(calls, ListenerCall(Head(listeners), event, state)), err)

\* EventDispatcher::remove_listener: the first listener with the id is taken
\* out, an unknown id is logged
dispatcher_remove_listener(d, id) ==
    [d EXCEPT !.listeners = SelectSeq(@, LAMBDA l : l.id # id)]

\* EventManager::register_listener
register_listener(mgr, type, returns) ==
    Put(mgr, type, add_listener(IF type \in DOMAIN mgr THEN mgr[type]
                                ELSE NewEventDispatcher, returns))

\* EventManager::remove_listener
remove_listener(mgr, type, id) ==
    IF type \in DOMAIN mgr THEN Put(mgr, type, dispatcher_remove_listener(mgr[type], id))
    ELSE mgr

\* EventManager::notify_listeners, called by CsDemoParser::notify_listeners
\* with &self.state
notify_listeners(mgr, event, state) ==
    IF event.type \in DOMAIN mgr
    THEN dispatch(mgr[event.type].listeners, event, state, <<>>, "")
    ELSE [ret |-> "", calls |-> <<>>]

\* parser.event_manager.register_listener
RegisterListener(type, returns) ==
    /\ event_manager' = register_listener(event_manager, type, returns)
    /\ dispatch_log' = NoDispatchLog
    /\ UNCHANGED <<varint_log, quantized, quant_log, trees, huff_n, huff_log, huff_reader,
                   constructed, send_tables_log, table_log, bits_log, own_table, index_log,
                   skip_log>>
    /\ UNCHANGED <<listVars, fpVars, parserVars, frameVars, decVars>>

\* parser.event_manager.remove_listener
RemoveListener(type, id) ==
    /\ event_manager' = remove_listener(event_manager, type, id)
    /\ dispatch_log' = NoDispatchLog
    /\ UNCHANGED <<varint_log, quantized, quant_log, trees, huff_n, huff_log, huff_reader,
                   constructed, send_tables_log, table_log, bits_log, own_table, index_log,
                   skip_log>>
    /\ UNCHANGED <<listVars, fpVars, parserVars, frameVars, decVars>>

DispatchLog(c, t, calls, ret, err) ==
    [called |-> TRUE, tick_before |-> tick, tick |-> t, cmd |-> c, calls |-> calls,
     ret |-> ret, err |-> err]

\* a faulty read_frame: the tick is assigned before the TickEvent listeners
\* are notified
tick_of_listeners_new(t) == t

\* the tick of the state the TickEvent listeners of a frame are given: the
\* assignment self.state.tick = tick follows the dispatch
tick_of_listeners(t) == tick

\* read_frame with the listeners of the event manager, for a frame whose
\* three varints have one byte each, whose payload is empty and whose command
\* is the stop command or one without a handler
ReadFrameNotifying(c, t) ==
    /\ pe.pc = "idle"
    /\ UNCHANGED <<event_manager, late_creators, game_event_serializers, map_name,
                   network_protocol>>
    /\ UNCHANGED <<varint_log, quantized, quant_log, trees, huff_n, huff_log, huff_reader,
                   constructed, send_tables_log, table_log, bits_log, own_table, index_log,
                   skip_log>>
    /\ UNCHANGED <<listVars, fpVars, parserVars, decVars>>
    /\ \E e \in {read_envelope(<<c, t, 0>>, TRUE)},
          ticked \in {IF tick_changed(t)
                      THEN notify_listeners(event_manager, TickEvent(t),
                                            ParserState(tick_of_listeners(t)))
                      ELSE [ret |-> "", calls |-> <<>>]},
          events \in {IF tick_changed(t) THEN <<TickEvent(t)>> ELSE <<>>} :
        IF ticked.ret # ""
        THEN /\ FrameReturns("Err", ticked.ret, e, events, "", FALSE, TRUE)
             /\ dispatch_log' = DispatchLog(c, t, ticked.calls, "Err", ticked.ret)
             /\ UNCHANGED tick
        ELSE /\ tick' = t
             /\ IF clear_compressed(c) = DemStop
                THEN \E ended \in {notify_listeners(event_manager, DemoEndEvent,
                                                    ParserState(t))} :
                        IF ended.ret # ""
                        THEN /\ FrameReturns("Err", ended.ret, e,
                                             Append(events, DemoEndEvent), "", FALSE, TRUE)
                             /\ dispatch_log' = DispatchLog(c, t, ticked.calls \o ended.calls,
                                                            "Err", ended.ret)
                        ELSE /\ FrameReturns("Ok(false)", "", e,
                                             Append(events, DemoEndEvent), "", FALSE, TRUE)
                             /\ dispatch_log' = DispatchLog(c, t, ticked.calls \o ended.calls,
                                                            "Ok(false)", "")
                ELSE /\ FrameReturns("Ok(true)", "", e, events, "", FALSE, TRUE)
                     /\ dispatch_log' = DispatchLog(c, t, ticked.calls, "Ok(true)", "")

----------------------------------------------------------------------------
(* Frames read by a parser with registered listeners *)

\* what a listener returns: Ok(()) or one of two errors
ListenerResults == {"", "first error", "second error"}

\* the listeners ever registered
MaxListeners == 3

ListenerTypes == {"TickEvent", "DemoEndEvent"}

\* the listeners registered so far for an event type
Registered(type) ==
    IF type \in DOMAIN event_manager THEN event_manager[type].next_listener_id ELSE 0

DispatchNext ==
    \/ \E type \in ListenerTypes, returns \in ListenerResults :
          /\ Registered("TickEvent") + Registered("DemoEndEvent") < MaxListeners
          /\ RegisterListener(type, returns)
    \/ \E type \in ListenerTypes, id \in 0 .. MaxListeners :
          /\ type \in DOMAIN event_manager
          /\ \E i \in 1 .. Len(event_manager[type].listeners) :
                event_manager[type].listeners[i].id = id
          /\ RemoveListener(type, id)
    \/ \E c \in {DemStop, DemFileInfo}, t \in {0, 1} : ReadFrameNotifying(c, t)

SpecDispatch == FrameInit /\ [][DispatchNext]_vars

\* the listener calls of the last read_frame for events of a type
CallsOf(type) == SelectSeq(dispatch_log.calls, LAMBDA call : call.event.type = type)

\* the last read_frame failed with the error of a listener of the type
FailedIn(type) ==
    /\ dispatch_log.ret = "Err"
    /\ dispatch_log.calls # <<>>
    /\ dispatch_log.calls[Len(dispatch_log.calls)].event.type = type

\* C32: every TickEvent listener is given a state whose tick is the tick
\* before the frame, not the tick of the event; when a TickEvent listener
\* returns an error read_frame fails and state.tick is still the tick before
\* the frame; when the dispatch succeeded state.tick is the tick of the frame.
C32_TickAssignedAfterDispatch ==
    dispatch_log.called =>
        /\ \A i \in 1 .. Len(CallsOf("TickEvent")) :
              /\ CallsOf("TickEvent")[i].event.tick = dispatch_log.tick
              /\ CallsOf("TickEvent")[i].state.tick = dispatch_log.tick_before
              /\ CallsOf("TickEvent")[i].state.tick # dispatch_log.tick
        /\ FailedIn("TickEvent") => tick = dispatch_log.tick_before
        /\ ~FailedIn("TickEvent") => tick = dispatch_log.tick

\* a frame of tick 0 read when the tick was 1: the first TickEvent listener
\* returned Ok, the second an error, both were given tick 1, and the tick is
\* still 1
C32_Witness ==
    /\ dispatch_log.called
    /\ FailedIn("TickEvent")
    /\ dispatch_log.tick_before = 1
    /\ dispatch_log.tick = 0
    /\ Len(dispatch_log.calls) = 2
    /\ dispatch_log.calls[1].state.tick = 1
    /\ dispatch_log.calls[2].state.tick = 1
    /\ tick = 1

\* a frame whose TickEvent listeners all returned Ok: the tick is the new one
C32_SucceededReached ==
    /\ dispatch_log.called
    /\ dispatch_log.ret = "Ok(true)"
    /\ Len(CallsOf("TickEvent")) = 2
    /\ dispatch_log.tick_before # dispatch_log.tick
    /\ tick = dispatch_log.tick

\* the ids of a sequence of listeners or listener calls
Ids(s) == [i \in 1 .. Len(s) |-> s[i].id]

\* the listeners of a type, in the order of their vector
ListenersOf(type) ==
    IF type \in DOMAIN event_manager THEN event_manager[type].listeners ELSE <<>>

\* the listeners of a type up to and including the first that returns an error
UpToFirstError(type) ==
    SelectSeq(ListenersOf(type),
              LAMBDA l : \A i \in 1 .. Len(ListenersOf(type)) :
                            (ListenersOf(type)[i].id < l.id)
                            => ListenersOf(type)[i].returns = "")

\* the last read_frame raised an event of the type
Raised(type) == \E i \in 1 .. Len(frame_log.events) : frame_log.events[i].type = type

\* C38: the listeners of an event type are kept in the order they were
\* registered (ids grow along the vector); an event is given to the
\* listeners of its type in that order, each once, up to and including the
\* first that returns an error; that error is the error of read_frame; with
\* no error every listener of the type was called.
C38_ListenersInOrder ==
    /\ \A type \in ListenerTypes :
          \A i, j \in 1 .. Len(ListenersOf(type)) :
              i < j => ListenersOf(type)[i].id < ListenersOf(type)[j].id
    /\ dispatch_log.called =>
          /\ \A type \in ListenerTypes :
                /\ Ids(CallsOf(type)) = IF Raised(type) THEN Ids(UpToFirstError(type))
                                        ELSE <<>>
                /\ FailedIn(type) =>
                      /\ dispatch_log.err
                            = UpToFirstError(type)[Len(UpToFirstError(type))].returns
                      /\ dispatch_log.err # ""
                      /\ frame_log.err = dispatch_log.err
                      /\ frame_log.ret = "Err"
          /\ dispatch_log.ret = "Err" <=> \E type \in ListenerTypes : FailedIn(type)
          /\ dispatch_log.ret # "Err" =>
                \A type \in ListenerTypes :
                    Raised(type) => \A i \in 1 .. Len(ListenersOf(type)) :
                                        ListenersOf(type)[i].returns = ""

\* three TickEvent listeners, the second and the third returning different
\* errors: the first two were called in order, the third was not, and
\* read_frame failed with the error of the second
C38_Witness ==
    /\ dispatch_log.called
    /\ Len(ListenersOf("TickEvent")) = 3
    /\ ListenersOf("TickEvent")[2].returns = "second error"
    /\ ListenersOf("TickEvent")[3].returns = "first error"
    /\ Ids(dispatch_log.calls) = <<0, 1>>
    /\ frame_log.ret = "Err"
    /\ frame_log.err = "second error"

\* a listener was removed and the two left were called in the order of their
\* registration
C38_AfterRemoveReached ==
    /\ dispatch_log.called
    /\ Ids(ListenersOf("DemoEndEvent")) = <<0, 2>>
    /\ Ids(CallsOf("DemoEndEvent")) = <<0, 2>>
    /\ dispatch_log.ret = "Ok(false)"

----------------------------------------------------------------------------
(* entity.rs: the running index of handle_packet_entities *)

\* i32::MAX and i32::MIN
MaxI32 == Pow2(30) + (Pow2(30) - 1)

MinI32 == (-MaxI32) - 1

\* the positions of the one bits among the first k bits of a reader, moved up
\* by shift
OneBits(reader, k, shift) == {shift + (i - 1) : i \in {j \in 1 .. k : reader[j] = 1}}

\* the bits that follow the first six of read_ubit_int
UBitMore(sel) == CASE sel = 1 -> 4 [] sel = 2 -> 8 [] sel = 3 -> 28 [] OTHER -> 0

\* read_ubit_int with its u32 as the set of its one bits: six bits, of which
\* bits 4 and 5 tell how many more follow above the low four
read_ubit_int_u32(reader) ==
    IF Len(reader) < 6 THEN [ok |-> FALSE, value |-> {}, rest |-> <<>>]
    ELSE IF reader[5] = 0 /\ reader[6] = 0
    THEN [ok |-> TRUE, value |-> OneBits(reader, 6, 0), rest |-> SubSeq(reader, 7, Len(reader))]
    ELSE IF Len(reader) < 6 + UBitMore(reader[5] + 2 * reader[6])
    THEN [ok |-> FALSE, value |-> {}, rest |-> <<>>]
    ELSE [ok |-> TRUE,
          value |-> OneBits(reader, 4, 0)
                    \cup OneBits(SubSeq(reader, 7, Len(reader)),
                                 UBitMore(reader[5] + 2 * reader[6]), 4),
          rest |-> SubSeq(reader, 7 + UBitMore(reader[5] + 2 * reader[6]), Len(reader))]

\* a + b of two i32: a sum out of range panics in a build with overflow
\* checks and wraps in one without
AddI32(a, b, overflow_checks) ==
    IF b > 0 /\ a > MaxI32 - b
    THEN IF overflow_checks THEN [kind |-> "panic", v |-> 0]
         ELSE [kind |-> "ok", v |-> ((a - MaxI32) - 1) + ((b - MaxI32) - 1)]
    ELSE IF b < 0 /\ a < MinI32 - b
    THEN IF overflow_checks THEN [kind |-> "panic", v |-> 0]
         ELSE [kind |-> "ok", v |-> ((a + MaxI32) + 1) + ((b + MaxI32) + 1)]
    ELSE [kind |-> "ok", v |-> a + b]

\* idx += r.read_ubit_int()? as i32 + 1: the cast keeps the 32 bits, so a
\* value of 2^31 or more is a negative number
AddToIndex(idx, step, overflow_checks) ==
    IF step.kind # "ok" THEN step ELSE AddI32(idx, step.v, overflow_checks)

entry_index(idx, value, overflow_checks) ==
    AddToIndex(idx, AddI32(AsI32(value), 1, overflow_checks), overflow_checks)

IndexLog(idx, value, ret, err, overflow_checks) ==
    [idx |-> idx, entries |-> index_log.entries + 1,
     seen |-> Append(index_log.seen, [before |-> index_log.idx, value |-> value, idx |-> idx]),
     overflow_checks |-> overflow_checks, ret |-> ret, err |-> err]

\* one turn of the loop of handle_packet_entities for an entry whose command
\* is a delete: the index, the two command bits, EntityList::delete
PacketEntitiesDeleteEntry(reader, overflow_checks) ==
    /\ index_log.ret = ""
    /\ index_log.entries > 0 => overflow_checks = index_log.overflow_checks
    /\ \E value \in {read_ubit_int_u32(reader)} :
          IF ~value.ok
          THEN /\ index_log' = [index_log EXCEPT !.ret = "Err", !.err = "EOF",
                                                 !.overflow_checks = overflow_checks]
               /\ UNCHANGED entity_chunk
          ELSE \E i \in {entry_index(index_log.idx, value.value, overflow_checks)},
                  cmd \in {read_unsigned(2, value.rest)} :
                  IF i.kind = "panic"
                  THEN /\ index_log' = IndexLog(index_log.idx, value.value, "panic",
                                                "attempt to add with overflow",
                                                overflow_checks)
                       /\ UNCHANGED entity_chunk
                  ELSE IF ~cmd.ok
                  THEN /\ index_log' = IndexLog(i.v, value.value, "Err", "EOF",
                                                overflow_checks)
                       /\ UNCHANGED entity_chunk
                  ELSE /\ cmd.v % 2 = 1
                       /\ entity_chunk' = delete(entity_chunk, AsUsize(i.v)).list
                       /\ index_log' = IndexLog(i.v, value.value, "", "", overflow_checks)
    /\ UNCHANGED <<varint_log, quantized, quant_log, trees, huff_n, huff_log, huff_reader,
                   constructed, send_tables_log, table_log, bits_log, own_table,
                   event_manager, dispatch_log, skip_log>>
    /\ UNCHANGED <<shadow, list_ret, fpVars, parserVars, frameVars, decVars>>

\* handle_packet_entities is called for the next message
PacketEntitiesBegin ==
    /\ index_log # NoIndexLog
    /\ index_log' = NoIndexLog
    /\ UNCHANGED <<varint_log, quantized, quant_log, trees, huff_n, huff_log, huff_reader,
                   constructed, send_tables_log, table_log, bits_log, own_table,
                   event_manager, dispatch_log, skip_log>>
    /\ UNCHANGED <<listVars, fpVars, parserVars, frameVars, decVars>>

----------------------------------------------------------------------------
(* The running index over messages of delete entries *)

Ones(n) == [i \in 1 .. n |-> 1]

Zeros(n) == [i \in 1 .. n |-> 0]

\* the bits of the values read_ubit_int returns: 0, 1, 255 and 4095 in their
\* short forms, and in the long form 0, 2^31 - 2, 2^31 - 1, 2^31, 2^32 - 2 and
\* 2^32 - 1; a value cut short
UBitInputs ==
    {Zeros(6), <<1>> \o Zeros(5), Ones(5) \o <<0>> \o Ones(4),
     Ones(4) \o <<0, 1>> \o Ones(8),
     Zeros(4) \o Ones(2) \o Zeros(28),
     <<0>> \o Ones(5) \o Ones(27) \o <<0>>,
     Ones(6) \o Ones(27) \o <<0>>,
     Zeros(4) \o Ones(2) \o Zeros(27) \o <<1>>,
     <<0>> \o Ones(5) \o Ones(28),
     Ones(6) \o Ones(28),
     Ones(6) \o Ones(5)}

\* the entries of one message
MaxIndexEntries == 3

IndexNext ==
    \/ /\ index_log.entries < MaxIndexEntries
       /\ \E bits \in UBitInputs, overflow_checks \in BOOLEAN :
             PacketEntitiesDeleteEntry(bits \o <<1, 0>>, overflow_checks)
    \/ PacketEntitiesBegin

SpecIndex == ListInit /\ [][IndexNext]_vars

\* the index of the j-th entry of the message is above the index before it
\* and not negative
Increases(j) ==
    /\ index_log.seen[j].idx > index_log.seen[j].before
    /\ index_log.seen[j].idx >= 0

\* C34: over the entries of one message the running index is never negative
\* and grows from entry to entry, for every value read_ubit_int returns, and
\* the addition never overflows.
C34_IndexStrictlyIncreasing ==
    /\ index_log.ret # "panic"
    /\ \A j \in 1 .. Len(index_log.seen) : Increases(j)

\* what the code does: an index that is not below -1 grows by the value plus
\* one when the value is below 2^31 - 1 and the sum is within the i32
C34_IncreasesBelowOverflow ==
    \A j \in 1 .. Len(index_log.seen) :
        (/\ index_log.seen[j].before >= -1
         /\ 31 \notin index_log.seen[j].value
         /\ Low31(index_log.seen[j].value, 30) < (MaxI32 - 1) - index_log.seen[j].before)
        => /\ index_log.seen[j].idx
                 = index_log.seen[j].before + Low31(index_log.seen[j].value, 30) + 1
           /\ Increases(j)
           /\ ~(j = Len(index_log.seen) /\ index_log.ret = "panic")

\* two entries of one message with the same index: the second read 2^32 - 1
C34_SameIndexTwice ==
    /\ index_log.ret = ""
    /\ Len(index_log.seen) = 2
    /\ index_log.seen[1].idx = 4095
    /\ index_log.seen[2].value = 0 .. 31
    /\ index_log.seen[2].idx = 4095

----------------------------------------------------------------------------
(* A send-tables message after the class decoders were installed *)

\* C36: when class decoders are installed, a send-tables message is rejected
\* with "Demo send tables already processed" and leaves the installed
\* decoders, the entity list and the instance-baseline table with its
\* prototype cache as they were.
C36_LaterSendTablesRejected ==
    [][(SendTablesStep /\ entity_serializers # EmptyFn)
       => /\ result' = "Demo send tables already processed"
          /\ entity_serializers' = entity_serializers
          /\ entity_chunk' = entity_chunk
          /\ instance_baseline' = instance_baseline]_vars

\* a send-tables message was rejected while the list held an entity and the
\* cache a prototype
C36_Witness ==
    /\ result = "Demo send tables already processed"
    /\ entity_serializers # EmptyFn
    /\ entity_chunk # NewEntityList
    /\ instance_baseline # None
    /\ instance_baseline[1].cache # EmptyFn

----------------------------------------------------------------------------
(* An entry whose index holds no entity *)

\* the entry of the log was neither a delete nor skipped for its PVS bits,
\* and the list holds no entity at its index
NoLiveEntity(log, list) ==
    /\ log.entry.in # None
    /\ log.entry.in[1].eof # "head"
    /\ BitAnd(log.cmd, 1) = 0
    /\ log.kind # "pvs_skip"
    /\ get(list, AsUsize(log.idx)) = None

\* C37: an entry that is neither a delete nor PVS-skipped and whose index
\* holds no entity after its create step, if it has one, ends
\* handle_packet_entities with an error, with "Entity not found for update"
\* unless the create step itself failed; no field path is read or decoded,
\* and the entity list is as the earlier entries left it.
C37_MissingEntityIsError ==
    [][(EntryStep /\ NoLiveEntity(pe_log', entity_chunk'))
       => /\ result' # ""
          /\ pe_log'.kind = "error"
          /\ pe'.pc = "idle"
          /\ \A i \in 1 .. Len(pe_log'.reads) : pe_log'.reads[i] # "read_field_paths"
          /\ pe_log'.dispatched = <<>>
          /\ entity_chunk' = entity_chunk
          /\ (BitAnd(pe_log'.cmd, 2) = 0 \/ ClassKnown(pe_log'.class_id))
             => result' = "Entity not found for update"]_vars

\* the second entry of a message creates at an index of 32768 or more: the
\* entity was not stored, the message ended with the error, and the entity
\* the first entry created is still in the list
C37_Witness ==
    /\ result = "Entity not found for update"
    /\ pe.pc = "idle"
    /\ pe_log.cmd = 2
    /\ pe_log.idx >= MAX_ENTITY_LISTS * MAX_ENTITIES_IN_LIST
    /\ pe_log.reads = HeadReads \o CreateReads
    /\ \E e \in iter(entity_chunk) : e.index = 16383

\* an update of an index that was never created
C37_UpdateReached ==
    /\ result = "Entity not found for update"
    /\ pe_log.cmd = 0
    /\ pe_log.reads = HeadReads
    /\ entity_chunk = NewEntityList

----------------------------------------------------------------------------
(* The shape of the Huffman tree *)

\* the opcodes of the leaves below a node, one element per leaf
RECURSIVE LeafOps(_)
LeafOps(node) ==
    IF node.op # None THEN <<node.op[1]>>
    ELSE (IF node.left = None THEN <<>> ELSE LeafOps(node.left[1]))
             \o (IF node.right = None THEN <<>> ELSE LeafOps(node.right[1]))

\* a leaf has no child; a node without an opcode has a left and a right
\* child, and so have the nodes below it
RECURSIVE IsFull(_)
IsFull(node) ==
    IF node.op # None THEN node.left = None /\ node.right = None
    ELSE /\ node.left # None
         /\ node.right # None
         /\ IsFull(node.left[1])
         /\ IsFull(node.right[1])

\* the leaves of all the trees of the heap, one element per leaf
RECURSIVE HeapLeafOps(_)
HeapLeafOps(heap) ==
    IF heap = {} THEN <<>>
    ELSE LET t == CHOOSE x \in heap : TRUE
         IN  LeafOps(t) \o HeapLeafOps(heap \ {t})

\* C40: the trees of the heap hold 40 leaves, one per opcode of
\* FIELD_PATH_OPS, and every node without an opcode has both children, so
\* the tree that is left has them too; no call of read_field_paths returns
\* "Invalid field path huffman tree".
C40_TreeIsFull ==
    /\ Len(HeapLeafOps(trees)) = 40
    /\ {HeapLeafOps(trees)[i] : i \in 1 .. Len(HeapLeafOps(trees))}
           = 0 .. (Len(FieldPathWeights) - 1)
    /\ Len(FieldPathWeights) = 40
    /\ \A t \in trees : IsFull(t)
    /\ huff_reader.err # "Invalid field path huffman tree"

\* the tree is built and a call walked it over four bits to an opcode whose
\* operands the stream does not hold
C40_Witness ==
    /\ Cardinality(trees) = 1
    /\ Len(LeafOps(FIELD_PATH_HUFFMAN)) = 40
    /\ IsFull(FIELD_PATH_HUFFMAN)
    /\ huff_reader.bits = <<1, 1, 1, 1, 1>>
    /\ fp_pc = "err"
    /\ huff_reader.err = "unexpected end of file"

----------------------------------------------------------------------------
(* entity/decoder.rs and entity/serializer.rs: the field decoders on a reader
   of bits, with a target and with none *)

\* A decoder is carried as its kind, its argument (the bit width of
\* QAngleSerializerBit, the N of EntitySerializerMultiComponents, the number
\* of leading fields of a CustomEntitySerializer that have a getter), the
\* F32SerializerQuantized it is, and the decoders it wraps.
Serializer(kind, arg, s, inner) == [kind |-> kind, arg |-> arg, s |-> s, inner |-> inner]

Primitive(kind) == Serializer(kind, 0, QuantizedErr("", "").s, <<>>)

\* a read of bit.rs as the result of a closure
Read(r) == IF r.ok THEN ReadOk(r.v, r.rest) ELSE EndOfFile

\* the same read with its value dropped
Skipped(r) == IF r.ok THEN ReadOk(None, r.rest) ELSE EndOfFile

\* BitRead::skip
skip(bits, reader) ==
    IF Len(reader) < bits THEN EndOfFile
    ELSE ReadOk(None, SubSeq(reader, bits + 1, Len(reader)))

\* read_unsigned::<k, T> or read_var::<T>(k) for a k of up to 64: the value
\* is carried as the positions of its one bits
read_wide(k, reader) ==
    IF Len(reader) < k THEN EndOfFile
    ELSE ReadOk(OneBits(reader, k, 0), SubSeq(reader, k + 1, Len(reader)))

\* u32::from_le_bytes and u64::from_le_bytes
from_le_bytes(buf) ==
    UNION {{8 * (i - 1) + p : p \in ByteBits(buf[i])} : i \in 1 .. Len(buf)}

\* the read closures of U64SerializerFixed (n = 8) and F32SerializerNoScale
\* (n = 4): read_bytes on a byte boundary, read_unsigned elsewhere
read_fixed(n, reader) ==
    IF byte_aligned(reader)
    THEN LET buf == read_bytes(n, reader)
         IN  IF buf.ok THEN ReadOk(from_le_bytes(buf.v), buf.rest) ELSE EndOfFile
    ELSE read_wide(8 * n, reader)

\* their skip closures: read_bytes on a byte boundary, skip elsewhere
skip_fixed(n, reader) ==
    IF byte_aligned(reader) THEN Skipped(read_bytes(n, reader))
    ELSE skip(8 * n, reader)

\* a varint read of bit.rs as the result of a closure
VarintRead(r, width, signed) ==
    IF r.kind = "ok"
    THEN ReadOk(IF signed THEN zigzag(r.value, width) ELSE r.value, r.rest)
    ELSE IF r.kind = "panic"
    THEN ReadFailed("panic", "attempt to shift left with overflow")
    ELSE EndOfFile

RECURSIVE skip_varint(_)
skip_varint(reader) ==
    LET byte == read_u8(reader)
    IN  IF ~byte.ok THEN EndOfFile
        ELSE IF byte.v < 128 THEN ReadOk(None, byte.rest)
        ELSE skip_varint(byte.rest)

\* the skip closure of StringSerializer
RECURSIVE skip_string(_)
skip_string(reader) ==
    LET byte == read_u8(reader)
    IN  IF ~byte.ok THEN EndOfFile
        ELSE IF byte.v = 0 THEN ReadOk(None, byte.rest)
        ELSE skip_string(byte.rest)

\* the f32 of read_coord, kept as the parts it is computed from:
\* intval + fractval / 32, negated under the sign bit
Coord(signbit, intval, fractval) ==
    [signbit |-> signbit, intval |-> intval, fractval |-> fractval]

\* read_coord, from the sign bit on
CoordFromSign(intval, fractval, reader) ==
    LET signbit == read_bit(reader)
        i == IF intval # 0 THEN read_unsigned(14, signbit.rest)
             ELSE [ok |-> signbit.ok, v |-> -1, rest |-> signbit.rest]
        f == IF fractval # 0 THEN read_unsigned(5, i.rest)
             ELSE [ok |-> i.ok, v |-> 0, rest |-> i.rest]
    IN  IF ~signbit.ok \/ ~i.ok \/ ~f.ok THEN EndOfFile
        ELSE ReadOk(Coord(signbit.v = 1, i.v + 1, f.v), f.rest)

read_coord(reader) ==
    LET intval == read_bit(reader)
        fractval == read_bit(intval.rest)
    IN  IF ~intval.ok \/ ~fractval.ok THEN EndOfFile
        ELSE IF intval.v # 0 \/ fractval.v # 0
        THEN CoordFromSign(intval.v, fractval.v, fractval.rest)
        ELSE ReadOk(Coord(FALSE, 0, 0), fractval.rest)

\* a faulty skip_coord: the sign bit is left out of the widest case
skip_coord_no_sign(reader) ==
    LET intval == read_bit(reader)
        fractval == read_bit(intval.rest)
    IN  IF ~intval.ok \/ ~fractval.ok THEN EndOfFile
        ELSE IF intval.v = 1 /\ fractval.v = 1 THEN skip(19, fractval.rest)
        ELSE IF intval.v = 1 THEN skip(15, fractval.rest)
        ELSE IF fractval.v = 1 THEN skip(6, fractval.rest)
        ELSE ReadOk(None, fractval.rest)

skip_coord(reader) ==
    LET intval == read_bit(reader)
        fractval == read_bit(intval.rest)
    IN  IF ~intval.ok \/ ~fractval.ok THEN EndOfFile
        ELSE IF intval.v = 1 /\ fractval.v = 1 THEN skip(20, fractval.rest)
        ELSE IF intval.v = 1 THEN skip(15, fractval.rest)
        ELSE IF fractval.v = 1 THEN skip(6, fractval.rest)
        ELSE ReadOk(None, fractval.rest)

\* the closure `read` of Vector3SerializerNormalized: the sign and the eleven
\* bits of the length
read_normal(reader) ==
    LET sign == read_bit(reader)
        len == read_unsigned(11, sign.rest)
    IN  IF ~sign.ok \/ ~len.ok THEN EndOfFile
        ELSE ReadOk([sign |-> sign.v = 1, len |-> len.v], len.rest)

\* the closure `read` of QAngleSerializerPrecise: len * 360 / 2^20 - 180, kept
\* as len
read_precise(reader) == Read(read_unsigned(20, reader))

\* QAngleSerializerBit::read_angle: read_var::<u32> takes no more than 32
\* bits, and 1 << bits of an i32 overflows from 32 bits on
read_angle(bits, reader, overflow_checks) ==
    IF bits > 32 THEN ReadFailed("err", "excessive bits for type read")
    ELSE LET v == read_wide(bits, reader)
         IN  IF v.kind # "ok" THEN v
             ELSE IF bits >= 32 /\ overflow_checks
             THEN ReadFailed("panic", "attempt to shift left with overflow")
             ELSE ReadOk([v |-> v.v, bits |-> bits % 32], v.rest)

\* one component of a vector or an angle
ComponentRead(kind, arg, reader, overflow_checks) ==
    CASE kind = "normal" -> read_normal(reader)
      [] kind = "coord" -> read_coord(reader)
      [] kind = "precise" -> read_precise(reader)
      [] kind = "bit" -> read_angle(arg, reader, overflow_checks)

\* the components a read closure reads one after the other: those whose
\* flag is set; the others keep the 0.0 of the default
RECURSIVE read_components(_, _, _, _, _, _)
read_components(kind, arg, has, reader, overflow_checks, acc) ==
    IF has = <<>> THEN ReadOk(acc, reader)
    ELSE IF ~Head(has)
    THEN read_components(kind, arg, Tail(has), reader, overflow_checks, Append(acc, None))
    ELSE LET r == ComponentRead(kind, arg, reader, overflow_checks)
         IN  IF r.kind # "ok" THEN r
             ELSE read_components(kind, arg, Tail(has), r.rest, overflow_checks,
                                  Append(acc, Some(r.v)))

\* the components a skip closure skips one after the other: skip_coord for
\* "coord", skip(20) for "precise"
RECURSIVE skip_components(_, _, _)
skip_components(kind, has, reader) ==
    IF has = <<>> THEN ReadOk(None, reader)
    ELSE IF ~Head(has) THEN skip_components(kind, Tail(has), reader)
    ELSE LET r == IF kind = "coord" THEN skip_coord(reader) ELSE skip(20, reader)
         IN  IF r.kind # "ok" THEN r ELSE skip_components(kind, Tail(has), r.rest)

\* the flag bits has_x, has_y (and has_z) a closure starts with
read_flags(n, reader) ==
    IF Len(reader) < n THEN EndOfFile
    ELSE ReadOk([i \in 1 .. n |-> reader[i] = 1], SubSeq(reader, n + 1, Len(reader)))

\* the read closure of Vector3SerializerNormalized: x and y under their
\* flags, then the sign of z, which is read whatever x and y are
Vector3Normalized_read(reader) ==
    LET has == read_flags(2, reader)
        xy == read_components("normal", 0, has.v, has.rest, FALSE, <<>>)
        sign_z == read_bit(xy.rest)
    IN  IF has.kind # "ok" THEN has
        ELSE IF xy.kind # "ok" THEN xy
        ELSE IF ~sign_z.ok THEN EndOfFile
        ELSE ReadOk([x |-> xy.v[1], y |-> xy.v[2], sign_z |-> sign_z.v = 1], sign_z.rest)

\* its skip closure
Vector3Normalized_skip(reader) ==
    LET has_x == read_bit(reader)
        has_y == read_bit(has_x.rest)
    IN  IF ~has_x.ok \/ ~has_y.ok THEN EndOfFile
        ELSE IF has_x.v = 1 /\ has_y.v = 1 THEN skip(25, has_y.rest)
        ELSE IF has_x.v = 1 \/ has_y.v = 1 THEN skip(13, has_y.rest)
        ELSE Skipped(read_bit(has_y.rest))

\* the read closures of QAngleSerializerCoord and QAngleSerializerPrecise
QAngle_read(kind, reader) ==
    LET has == read_flags(3, reader)
    IN  IF has.kind # "ok" THEN has
        ELSE read_components(kind, 0, has.v, has.rest, FALSE, <<>>)

\* their skip closures
QAngle_skip(kind, reader) ==
    LET has == read_flags(3, reader)
    IN  IF has.kind # "ok" THEN has ELSE skip_components(kind, has.v, has.rest)

\* the $read_fn of a primitive_serializer!
read_fn(kind, reader, overflow_checks) ==
    CASE kind = "Bool" -> Read(read_bit(reader))
      [] kind = "U64VarInt" ->
            VarintRead(read_varint_u64(reader, overflow_checks), 64, FALSE)
      [] kind = "I64VarInt" ->
            VarintRead(read_varint_u64(reader, overflow_checks), 64, TRUE)
      [] kind = "U64Fixed" -> read_fixed(8, reader)
      [] kind = "String" -> Read(read_null_terminated_string(reader, <<>>))
      [] kind = "F32Coord" -> read_coord(reader)
      [] kind = "F32NoScale" -> read_fixed(4, reader)
      [] kind = "Vector3Normalized" -> Vector3Normalized_read(reader)
      [] kind = "QAngleCoord" -> QAngle_read("coord", reader)
      [] kind = "QAnglePrecise" -> QAngle_read("precise", reader)

\* its $skip_fn
skip_fn(kind, reader) ==
    CASE kind = "Bool" -> Skipped(read_bit(reader))
      [] kind = "U64VarInt" -> skip_varint(reader)
      [] kind = "I64VarInt" -> skip_varint(reader)
      [] kind = "U64Fixed" -> skip_fixed(8, reader)
      [] kind = "String" -> skip_string(reader)
      [] kind = "F32Coord" -> skip_coord(reader)
      [] kind = "F32NoScale" -> skip_fixed(4, reader)
      [] kind = "Vector3Normalized" -> Vector3Normalized_skip(reader)
      [] kind = "QAngleCoord" -> QAngle_skip("coord", reader)
      [] kind = "QAnglePrecise" -> QAngle_skip("precise", reader)

\* primitive_serializer!: decode_typed of the ten decoders the macro defines
primitive_serializer(kind, entity, path, reader, overflow_checks) ==
    IF path # <<>>
    THEN ReadFailed("err", "Path should be empty when primitive serializer is reached")
    ELSE IF entity # None THEN read_fn(kind, reader, overflow_checks)
    ELSE skip_fn(kind, reader)

\* QAngleSerializerBit::decode_typed: the path is not looked at (bits * 3
\* stays far below the u32 range for the widths decoded here)
QAngleSerializerBit_decode_typed(bits, entity, reader, overflow_checks) ==
    IF entity # None
    THEN read_components("bit", bits, <<TRUE, TRUE, TRUE>>, reader, overflow_checks, <<>>)
    ELSE skip(bits * 3, reader)

\* F32SerializerQuantized::decode_typed with no target: the flags that are
\* set read one bit each until a bit is 1, and the value bits are skipped
\* when no bit was
skip_quantized(s, reader) ==
    LET down == IF s.rounddown THEN read_bit(reader) ELSE [ok |-> TRUE, v |-> 0, rest |-> reader]
        up == IF down.v = 1 THEN down
              ELSE IF s.roundup THEN read_bit(down.rest) ELSE down
        zero == IF up.v = 1 THEN up
                ELSE IF s.encode_zero THEN read_bit(up.rest) ELSE up
    IN  IF ~down.ok \/ ~up.ok \/ ~zero.ok THEN EndOfFile
        ELSE IF zero.v = 1 THEN ReadOk(None, zero.rest)
        ELSE skip(s.bits, zero.rest)

\* F32SerializerQuantized::decode_typed: the path is not looked at
F32SerializerQuantized_decode_typed(s, entity, reader) ==
    IF entity # None
    THEN LET r == QuantizedDecode(s, entity, reader)
         IN  IF r.ret = "Ok" THEN ReadOk(r.entity[1], r.reader) ELSE EndOfFile
    ELSE skip_quantized(s, reader)

\* EntityTypeWarp::as_entity_field, the cast of the value decoded: kept as
\* the cast applied to the value
as_entity_field(v) == [cast |-> "as", of |-> v]

\* the value of T::new() for the decoders below it
RECURSIVE T_new(_)
T_new(ser) ==
    CASE ser.kind = "MultiComponents" -> [i \in 1 .. ser.arg |-> T_new(ser.inner[1])]
      [] ser.kind = "Vector" -> <<>>
      [] ser.kind = "Optional" -> None
      [] ser.kind = "Custom" -> [i \in 1 .. ser.arg |-> T_new(ser.inner[i])]
      [] ser.kind = "TypeWarp" -> T_new(ser.inner[1])
      [] OTHER -> 0

\* decode_typed of every decoder: `entity` is None, or Some of the target
RECURSIVE decode_typed(_, _, _, _, _)

\* EntitySerializerMultiComponents with a target: one decode per item of
\* get_items()
RECURSIVE decode_items(_, _, _, _, _, _)
decode_items(inner, items, path, reader, overflow_checks, acc) ==
    IF items = <<>> THEN ReadOk(acc, reader)
    ELSE LET r == decode_typed(inner, Some(Head(items)), path, reader, overflow_checks)
         IN  IF r.kind # "ok" THEN r
             ELSE decode_items(inner, Tail(items), path, r.rest, overflow_checks,
                               Append(acc, r.v))

\* EntitySerializerMultiComponents with no target: N decodes
RECURSIVE skip_items(_, _, _, _, _)
skip_items(inner, n, path, reader, overflow_checks) ==
    IF n = 0 THEN ReadOk(None, reader)
    ELSE LET r == decode_typed(inner, None, path, reader, overflow_checks)
         IN  IF r.kind # "ok" THEN r
             ELSE skip_items(inner, n - 1, path, r.rest, overflow_checks)

\* EntitySerializerTypeWarpAdapter::decode_typed
TypeWarp_decode_typed(inner, entity, path, reader, overflow_checks) ==
    IF entity # None
    THEN LET r == decode_typed(inner, Some(T_new(inner)), path, reader, overflow_checks)
         IN  IF r.kind # "ok" THEN r ELSE ReadOk(as_entity_field(r.v), r.rest)
    ELSE decode_typed(inner, None, path, reader, overflow_checks)

\* VectorSerializer::decode_typed.  The vector resized is kept as the length
\* it was given (the allocation is not modelled).
Vector_decode_typed(inner, entity, path, reader, overflow_checks) ==
    IF path = <<>>
    THEN IF entity # None
         THEN LET size == VarintRead(read_varint_u64(reader, overflow_checks), 64, FALSE)
              IN  IF size.kind # "ok" THEN size
                  ELSE ReadOk([resized |-> size.v], size.rest)
         ELSE skip_varint(reader)
    ELSE IF entity # None
    THEN IF path[1] < Len(entity[1])
         THEN LET r == decode_typed(inner, Some(entity[1][path[1] + 1]), Tail(path),
                                    reader, overflow_checks)
              IN  IF r.kind # "ok" THEN r
                  ELSE ReadOk([entity[1] EXCEPT ![path[1] + 1] = r.v], r.rest)
         ELSE ReadFailed("err", "Invalid vector index")
    ELSE decode_typed(inner, None, Tail(path), reader, overflow_checks)

\* OptionalSerializer::decode_typed
Optional_decode_typed(inner, entity, path, reader, overflow_checks) ==
    IF path = <<>>
    THEN LET has_item == read_bit(reader)
         IN  IF ~has_item.ok THEN EndOfFile
             ELSE ReadOk(IF entity = None THEN None
                         ELSE replace_or_take(has_item.v = 1, T_new(inner)),
                         has_item.rest)
    ELSE IF entity # None
    THEN IF entity[1] = None
         THEN ReadFailed("err", "PointerSerializer expects a non-empty entity")
         ELSE LET r == decode_typed(inner, Some(entity[1][1]), path, reader,
                                    overflow_checks)
              IN  IF r.kind # "ok" THEN r ELSE ReadOk(Some(r.v), r.rest)
    ELSE decode_typed(inner, None, path, reader, overflow_checks)

\* CustomEntitySerializer::decode_typed for a struct whose first `getters`
\* fields have a getter and no callback
Custom_decode_typed(serializers, getters, entity, path, reader, overflow_checks) ==
    IF path = <<>> THEN ReadFailed("err", "Invalid field path")
    ELSE IF path[1] >= Len(serializers) THEN ReadFailed("err", "Invalid serializer index")
    ELSE IF entity # None /\ path[1] < getters
    THEN LET r == decode_typed(serializers[path[1] + 1], Some(entity[1][path[1] + 1]),
                               Tail(path), reader, overflow_checks)
         IN  IF r.kind # "ok" THEN r
             ELSE ReadOk([entity[1] EXCEPT ![path[1] + 1] = r.v], r.rest)
    ELSE LET r == decode_typed(serializers[path[1] + 1], None, Tail(path), reader,
                               overflow_checks)
         IN  IF r.kind # "ok" \/ entity = None THEN r ELSE ReadOk(entity[1], r.rest)

decode_typed(ser, entity, path, reader, overflow_checks) ==
    CASE ser.kind = "MultiComponents" ->
            IF entity # None
            THEN decode_items(ser.inner[1], entity[1], path, reader, overflow_checks, <<>>)
            ELSE skip_items(ser.inner[1], ser.arg, path, reader, overflow_checks)
      [] ser.kind = "TypeWarp" ->
            TypeWarp_decode_typed(ser.inner[1], entity, path, reader, overflow_checks)
      [] ser.kind = "Vector" ->
            Vector_decode_typed(ser.inner[1], entity, path, reader, overflow_checks)
      [] ser.kind = "Optional" ->
            Optional_decode_typed(ser.inner[1], entity, path, reader, overflow_checks)
      [] ser.kind = "Custom" ->
            Custom_decode_typed(ser.inner, ser.arg, entity, path, reader, overflow_checks)
      [] ser.kind = "QAngleBit" ->
            QAngleSerializerBit_decode_typed(ser.arg, entity, reader, overflow_checks)
      [] ser.kind = "F32Quantized" ->
            F32SerializerQuantized_decode_typed(ser.s, entity, reader)
      [] OTHER -> primitive_serializer(ser.kind, entity, path, reader, overflow_checks)

\* one field decoded twice from the same bits, with the same path: into
\* `entity` and with no target; the history keeps how each call ended
SkipLog(ser, entity, path, reader, overflow_checks) ==
    [called |-> TRUE, kind |-> ser.kind, path |-> path, reader |-> reader,
     overflow_checks |-> overflow_checks, has_entity |-> entity # None,
     target |-> decode_typed(ser, entity, path, reader, overflow_checks),
     skip |-> decode_typed(ser, None, path, reader, overflow_checks)]

DecodeTyped(ser, entity, path, reader, overflow_checks) ==
    /\ skip_log' = SkipLog(ser, entity, path, reader, overflow_checks)
    /\ UNCHANGED <<varint_log, quantized, quant_log, trees, huff_n, huff_log, huff_reader,
                   constructed, send_tables_log, table_log, bits_log, own_table,
                   event_manager, dispatch_log, index_log>>
    /\ UNCHANGED <<listVars, fpVars, parserVars, frameVars, decVars>>

----------------------------------------------------------------------------
(* every field decoder in both modes on the same bits *)

\* the decoders F32SerializerQuantized::new makes of eight bits between -1
\* and 1 for each set of flags it accepts
SkipQuantized ==
    {q.s : q \in {n \in {F32SerializerQuantized_new(8, flags, Dyadic(-1, 0), Dyadic(1, 0),
                                                    FALSE) : flags \in 0 .. 7} :
                     n.kind = "Ok"}}

\* the widths of QAngleSerializerBit: a bit, a byte, the widest an i32 can
\* be shifted by, the widest a u32 holds, and one more
QAngleBits == {1, 8, 31, 32, 33}

\* the decoders of get_serializer that wrap no other
Primitives ==
    {Primitive(kind) : kind \in {"Bool", "U64VarInt", "I64VarInt", "U64Fixed", "String",
                                 "F32Coord", "F32NoScale", "Vector3Normalized",
                                 "QAngleCoord", "QAnglePrecise"}}
    \cup {Serializer("QAngleBit", bits, QuantizedErr("", "").s, <<>>) : bits \in QAngleBits}
    \cup {Serializer("F32Quantized", 0, s, <<>>) : s \in SkipQuantized}

Wrapper(kind, arg, inner) == Serializer(kind, arg, QuantizedErr("", "").s, inner)

\* with_components! over the three float decoders
MultiComponents ==
    {Wrapper("MultiComponents", n, <<inner>>) :
        n \in {2, 3},
        inner \in {p \in Primitives : p.kind \in {"F32Coord", "F32NoScale", "F32Quantized"}}}

\* a struct of a bool with a getter, a varint with a getter and a coord with
\* none
Struct ==
    Wrapper("Custom", 2, <<Primitive("Bool"), Primitive("U64VarInt"), Primitive("F32Coord")>>)

\* the wrappers over a primitive decoder or the struct
Wrappers ==
    MultiComponents
    \cup {Wrapper("TypeWarp", 0, <<Primitive(kind)>>) : kind \in {"U64VarInt", "U64Fixed"}}
    \cup {Wrapper("Vector", 0, <<inner>>) :
             inner \in {Primitive("Bool"), Primitive("U64VarInt"), Primitive("F32Coord"),
                        Struct}}
    \cup {Wrapper("Optional", 0, <<inner>>) : inner \in {Primitive("Bool"), Struct}}

\* the targets a decoder is given: a fresh value; a vector of none or of two
\* elements; an absent or a present optional
Targets(ser) ==
    CASE ser.kind = "Vector" -> {<<>>, <<T_new(ser.inner[1]), T_new(ser.inner[1])>>}
      [] ser.kind = "Optional" -> {None, Some(T_new(ser.inner[1]))}
      [] OTHER -> {T_new(ser)}

\* the paths below the field: none, an index, an index and a member
SkipPaths == {<<>>, <<0>>, <<1>>, <<2>>, <<1, 1>>}

\* the first bits of a reader: every bit string of up to MaxSkipBits bits
MaxSkipBits == 4

\* the bits that follow them: none; two bytes ending in a zero byte; a varint
\* of eleven bytes with two zero bytes after it; a long pattern that is
\* neither
SkipBodies ==
    {<<>>,
     <<1, 0, 0, 0, 0, 1, 1, 0>> \o Zeros(16),
     Ones(88) \o Zeros(16),
     [i \in 1 .. 108 |-> IF i % 3 = 0 THEN 1 ELSE 0]}

SkipReaders == {head \o body : head \in BitStrings(MaxSkipBits), body \in SkipBodies}

SkipInit == ParserStart /\ ListStart /\ FpInit /\ DecStart /\ UnitStart

\* each behaviour decodes one field: a decode depends on nothing but its
\* decoder, its target, its path and its reader
SkipNext ==
    /\ ~skip_log.called
    /\ \E ser \in Primitives \cup Wrappers, path \in SkipPaths, reader \in SkipReaders,
          overflow_checks \in BOOLEAN :
          \E entity \in Targets(ser) :
              DecodeTyped(ser, Some(entity), path, reader, overflow_checks)

SpecSkip == SkipInit /\ [][SkipNext]_vars

\* C35: whenever a decoder (each primitive decoder and each wrapper) decodes
\* a field into a target, decoding the same bits with the same path and no
\* target succeeds too and leaves the same bits in the reader: both modes
\* consume the same number of bits.
C35_SkipConsumesTheSame ==
    (skip_log.called /\ skip_log.target.kind = "ok") =>
        /\ skip_log.skip.kind = "ok"
        /\ skip_log.skip.rest = skip_log.target.rest

\* a vector of coords decoded its second element, 22 bits wide, in both
\* modes from a reader that does not stand on a byte boundary
C35_Witness ==
    /\ skip_log.called /\ skip_log.kind = "Vector" /\ skip_log.path = <<1>>
    /\ skip_log.target.kind = "ok" /\ skip_log.skip.kind = "ok"
    /\ Len(skip_log.reader) % 8 # 0
    /\ Len(skip_log.target.rest) = Len(skip_log.reader) - 22
    /\ skip_log.target.v[2].intval > 1

\* the decode into a target fails where the decode with no target succeeds:
\* a vector index past the length, an absent optional, an angle of 33 bits,
\* a varint of eleven bytes under overflow checks
C35_OnlySkipSucceeds ==
    /\ skip_log.called /\ skip_log.target.kind # "ok" /\ skip_log.skip.kind = "ok"

====
